---- MODULE Spec2Model ----
(***************************************************************************)
(* A model of the storage engine: the Pager (buffer pool over three        *)
(* doubly-linked residency lists), the extendible-hash table, the grace    *)
(* hash join and the write-ahead log with its recovery.                    *)
(*                                                                         *)
(* Each subsystem has its own specification over the shared variables:     *)
(*   SpecPager     getPage / put on one Pager                              *)
(*   SpecHash      Find / Insert / Update / Delete by concurrent threads   *)
(*   SpecTable     Insert / Update / Delete of one caller, more keys       *)
(*   SpecLocks     SpecHash with Select and the calls that return errors   *)
(*   SpecJoin      Join, its probe tasks and the consumer of the channel   *)
(*   SpecJoinFair  SpecJoin on inputs that make tasks fail, tasks run on   *)
(*   SpecRecovery  transactions, Checkpoint, a crash, Prime and Recover    *)
(*   SpecBloom     Insert into one Bloom filter                            *)
(*   SpecRedo      Redo of edit records on one table                       *)
(*   SpecCheckpoint  a Pager in use and Checkpoint step by step            *)
(*   SpecDisk      getPage / put / update on a file-backed Pager           *)
(*   SpecSplit     Insert of colliding keys with the frames Split pins     *)
(*   SpecList      PushHead / PushTail / PopSelf on one List               *)
(*   SpecWal       concurrent Table / Start / Edit / Commit / Checkpoint   *)
(*   SpecRace      SpecWal with Rollback, whose map read takes no lock     *)
(*   SpecSnapshot  Delta step by step, a crash inside it, and Prime        *)
(*   SpecCover     Checkpoint beside handlers that log, then mutate        *)
(* The variables of the other subsystems keep their initial values.        *)
(***************************************************************************)
EXTENDS Integers, Sequences, FiniteSets, TLC

VARIABLES
    \* ---- Pager (src/unnamed/part_000) ----
    hasFile,      \* pager.file != nil
    maxPageNum,   \* pager.maxPageNum
    pages,        \* the NUMPAGES frames: pagenum, pinCount, dirty
    heap,         \* the Links allocated so far and the three Lists (head, tail)
    pageTable,    \* pager.pageTable: page number -> Link
    pagerRet,     \* what the last Pager call did and returned
    disk,         \* page number -> the content its holders see, the content in the file
    ptLocks,      \* pager.ptMtx and the pages' update locks a Checkpoint holds
    \* ---- List (src/unnamed/part_001) ----
    lheap,        \* one List on its own and the Links allocated for it
    elems,        \* the Links pushed and not popped, in the order of the pushes
    \* ---- HashTable (src/pkg/hash/table.go) ----
    table,        \* depth, buckets (the directory) and the bucket pages
    tableLock,    \* table.rwlock: its writer and its readers
    bucketLock,   \* each bucket page's rwlock
    thr,          \* each thread's call in progress and its position in it
    shadow,       \* key -> the value of its last successful Insert or Update
    everDeleted,  \* a Delete has succeeded
    \* ---- Join (src/pkg/query/hash_join.go) ----
    joinIn,       \* leftTable, rightTable, joinOnLeftKey, joinOnRightKey
    joinPc,       \* "init" before Join is called, "probing" after it returned
    joinTables,   \* the two temporary hash tables after build and alignment
    tasks,        \* the probe tasks of the errgroup
    resultsChan,  \* the buffered result channel
    received,     \* the pairs the consumer has taken from the channel
    ctxDone,      \* the errgroup's context is cancelled
    \* ---- RecoveryManager (src/pkg/query/bloom_filter.go, package recovery) ----
    log,          \* the records of the log file
    txStack,      \* rm.txStack: client id -> the records kept in memory
    db,           \* the live database: the table exists, key -> value
    snapshot,     \* the copy of the database in the recovery folder
    tm,           \* the running transactions and the keys each has locked
    durable,      \* key -> value as the committed transactions left it
    recPc,        \* "running", the steps of a Checkpoint, "crashed", "recovered"
    recErr,       \* what Recover returned
    rbRet,        \* the last Rollback: its client and what it returned
    wal,          \* rm.mtx, the records synced, each caller's position, the Rollbacks running
    \* ---- BloomFilter (src/pkg/query/bloom_filter.go) ----
    bloom,        \* one filter: its size and the bits set
    bfKeys        \* the keys inserted into it

listVars == <<lheap, elems>>

pagerVars == <<hasFile, maxPageNum, pages, heap, pageTable, pagerRet, disk, ptLocks, listVars>>

hashVars == <<table, tableLock, bucketLock, thr, shadow, everDeleted>>

joinVars == <<joinIn, joinPc, joinTables, tasks, resultsChan, received, ctxDone>>

recVars == <<log, txStack, db, snapshot, tm, durable, recPc, recErr, rbRet, wal>>

bloomVars == <<bloom, bfKeys>>

vars == <<hasFile, maxPageNum, pages, heap, pageTable, pagerRet, disk, ptLocks,
          lheap, elems,
          table, tableLock, bucketLock, thr, shadow, everDeleted,
          joinIn, joinPc, joinTables, tasks, resultsChan, received, ctxDone,
          log, txStack, db, snapshot, tm, durable, recPc, recErr, rbRet, wal,
          bloom, bfKeys>>

\* what a step of one subsystem leaves alone
notPager == <<hashVars, joinVars, recVars, bloomVars>>

notHash == <<pagerVars, joinVars, recVars, bloomVars>>

notJoin == <<pagerVars, hashVars, recVars, bloomVars>>

notRecovery == <<pagerVars, hashVars, joinVars, bloomVars>>

notBloom == <<pagerVars, hashVars, joinVars, recVars>>

----------------------------------------------------------------------------
(* Constants of the program and bounds of the model *)

NUMPAGES == 3        \* buffer-pool capacity
NOPAGE == 0 - 1      \* page number of an unbound frame
MaxPageNo == 3       \* page numbers 0..MaxPageNo are requested
MaxPin == 2          \* a page is pinned at most MaxPin times at once
MaxPushes == 4       \* pushes on the List that runs on its own
MaxLinks == 10       \* Links allocated in one run (NewPager allocates NUMPAGES)
MaxCkLinks == 5      \* Links allocated in one run of the pager with checkpoints
MaxDiskLinks == 8    \* Links allocated in one run of the pager with updates
MaxVer == 1          \* a page is updated at most MaxVer times

NIL == 0             \* the nil *Link

BUCKETSIZE == 4      \* entries per bucket
MaxDepth == 4        \* the directory is not doubled beyond this depth
NumThreads == 2      \* threads calling into one HashTable
MaxRedo == 3             \* Redo calls in a row on one table
MaxWal == 4              \* concurrent callers stop writing to a log of this length
MaxCheckpoints == 2      \* Checkpoint calls in one run of the pager with checkpoints
MaxLog == 7              \* clients stop writing to a log of this length
ChanCap == 2             \* the capacity of the result channel in the model
DEFAULT_FILTER_SIZE == 1024

PageNos == 0..MaxPageNo
Frames == 1..NUMPAGES
ListNames == {"freeList", "unpinnedList", "pinnedList"}

----------------------------------------------------------------------------
(* The doubly-linked list: a heap of Links and the Lists' head and tail.   *)
(* A Link is [list, prev, next, value]; its id is its index in heap.links. *)
(* heap.panic records a nil dereference.                                   *)

NewList == [head |-> NIL, tail |-> NIL]

EmptyHeap ==
    [links |-> <<>>, lists |-> [l \in ListNames |-> NewList], panic |-> FALSE]

PeekHead(h, l) == h.lists[l].head

PeekTail(h, l) == h.lists[l].tail

GetList(h, link) == h.links[link].list

GetKey(h, link) == h.links[link].value

\* The link the walk from cur reaches first whose value is key (List.Find with
\* the predicate PopSelf passes); fuel bounds the walk by the number of Links.
RECURSIVE FindFrom(_, _, _, _)
FindFrom(h, cur, key, fuel) ==
    IF cur = NIL \/ fuel = 0 THEN NIL
    ELSE IF h.links[cur].value = key THEN cur
    ELSE FindFrom(h, h.links[cur].next, key, fuel - 1)

Find(h, l, key) == FindFrom(h, h.lists[l].head, key, Len(h.links))

\* List.PushTail: the new Link is the last of heap.links.
PushTail(h, l, value) ==
    LET node == Len(h.links) + 1
        tl == h.lists[l].tail
        linked == IF tl # NIL
                  THEN [h.links EXCEPT ![tl].next = node]
                  ELSE h.links
        hd == IF h.lists[l].head = NIL THEN node ELSE h.lists[l].head
    IN [h EXCEPT
          !.links = Append(linked,
                           [list |-> l, prev |-> tl, next |-> NIL, value |-> value]),
          !.lists[l] = [head |-> hd, tail |-> node]]

\* List.PushHead
PushHead(h, l, value) ==
    LET node == Len(h.links) + 1
        hd == h.lists[l].head
        linked == IF hd # NIL
                  THEN [h.links EXCEPT ![hd].prev = node]
                  ELSE h.links
        tl == IF h.lists[l].tail = NIL THEN node ELSE h.lists[l].tail
    IN [h EXCEPT
          !.links = Append(linked,
                           [list |-> l, prev |-> NIL, next |-> hd, value |-> value]),
          !.lists[l] = [head |-> node, tail |-> tl]]

\* Link.PopSelf, statement by statement; l is link.list.
\*   if l.head == link { l.head = link.next }
PopSelfHead(h, l, link) ==
    IF h.lists[l].head = link
    THEN [h EXCEPT !.lists[l].head = h.links[link].next]
    ELSE h

\*   if l.tail == link { l.tail = link.prev
\*                       if link.prev != nil { link.prev.next = nil } }
PopSelfTail(h, l, link) ==
    IF h.lists[l].tail # link THEN h
    ELSE IF h.links[link].prev # NIL
    THEN [h EXCEPT !.lists[l].tail = h.links[link].prev,
                   !.links[h.links[link].prev].next = NIL]
    ELSE [h EXCEPT !.lists[l].tail = NIL]

\*   b = l.Find(a node with link's key)
\*   if b != nil { link.prev.next = link.next; link.next.prev = link.prev }
PopSelfMiddle(h, l, link) ==
    IF Find(h, l, h.links[link].value) = NIL THEN h
    ELSE IF h.links[link].prev = NIL \/ h.links[link].next = NIL
    THEN [h EXCEPT !.panic = TRUE]
    ELSE [h EXCEPT !.links[h.links[link].prev].next = h.links[link].next,
                   !.links[h.links[link].next].prev = h.links[link].prev]

PopSelf(h, link) ==
    PopSelfMiddle(PopSelfTail(PopSelfHead(h, h.links[link].list, link),
                              h.links[link].list, link),
                  h.links[link].list, link)

\* The Links of list l in order, following next from the head.
RECURSIVE WalkFrom(_, _, _)
WalkFrom(h, cur, fuel) ==
    IF cur = NIL \/ fuel = 0 THEN <<>>
    ELSE <<cur>> \o WalkFrom(h, h.links[cur].next, fuel - 1)

ListLinks(h, l) == WalkFrom(h, h.lists[l].head, Len(h.links))

Range(s) == {s[i] : i \in DOMAIN s}

\* The frames in list l, in order.
ListFrames(h, l) == [i \in DOMAIN ListLinks(h, l) |-> h.links[ListLinks(h, l)[i]].value]

\* ---- one List on its own: l := list.NewList(), then pushes and pops ----

TheList == "list"

ListInit ==
    /\ lheap = [links |-> <<>>, lists |-> [l \in {TheList} |-> NewList], panic |-> FALSE]
    /\ elems = <<>>

ListValues == {1, 2, 3}

\* the sequence without the element
Without(s, x) == SelectSeq(s, LAMBDA y : y # x)

\* l.PushHead(value)
ListPushHead ==
    \E value \in ListValues :
       /\ ~lheap.panic
       /\ Len(lheap.links) < MaxPushes
       /\ lheap' = PushHead(lheap, TheList, value)
       /\ elems' = <<Len(lheap.links) + 1>> \o elems
       /\ UNCHANGED <<hasFile, maxPageNum, pages, heap, pageTable, pagerRet, disk, ptLocks>>
       /\ UNCHANGED notPager

\* l.PushTail(value)
ListPushTail ==
    \E value \in ListValues :
       /\ ~lheap.panic
       /\ Len(lheap.links) < MaxPushes
       /\ lheap' = PushTail(lheap, TheList, value)
       /\ elems' = Append(elems, Len(lheap.links) + 1)
       /\ UNCHANGED <<hasFile, maxPageNum, pages, heap, pageTable, pagerRet, disk, ptLocks>>
       /\ UNCHANGED notPager

\* link.PopSelf() of a link that is in the list
ListPopSelf ==
    \E link \in Range(elems) :
       /\ ~lheap.panic
       /\ lheap' = PopSelf(lheap, link)
       /\ elems' = Without(elems, link)
       /\ UNCHANGED <<hasFile, maxPageNum, pages, heap, pageTable, pagerRet, disk, ptLocks>>
       /\ UNCHANGED notPager

----------------------------------------------------------------------------
(* The Pager.  P is the Pager's state as a record, so that NewPage and     *)
(* FlushPage are operators GetPage composes.                               *)

ThePager ==
    [hasFile |-> hasFile, maxPageNum |-> maxPageNum, pages |-> pages,
     heap |-> heap, pageTable |-> pageTable, disk |-> disk]

\* delete(m, k) of a Go map
MapDelete(m, k) == [x \in (DOMAIN m) \ {k} |-> m[x]]

\* m[k] = v of a Go map
MapPut(m, k, v) == [x \in (DOMAIN m) \cup {k} |-> IF x = k THEN v ELSE m[x]]

\* NewPager: every frame is pushed on the tail of the free list, unbound.
NewPagerHeap[i \in 0..NUMPAGES] ==
    IF i = 0 THEN EmptyHeap ELSE PushTail(NewPagerHeap[i - 1], "freeList", i)

NewPager ==
    [hasFile |-> FALSE, maxPageNum |-> 0,
     pages |-> [f \in Frames |-> [pagenum |-> NOPAGE, pinCount |-> 0, dirty |-> FALSE]],
     heap |-> NewPagerHeap[NUMPAGES],
     pageTable |-> <<>>,
     disk |-> [pn \in PageNos |-> [content |-> 0, onDisk |-> 0]]]

\* Pager.Open on a new (empty) file: maxPageNum = len / PAGESIZE = 0.
Open(P) == [P EXCEPT !.hasFile = TRUE, !.maxPageNum = 0]

\* Pager.FlushPage: a dirty page of a file-backed pager is written and cleaned.
FlushPage(P, page) ==
    IF P.pages[page].dirty /\ P.hasFile
    THEN [P EXCEPT !.disk[P.pages[page].pagenum].onDisk =
                       P.disk[P.pages[page].pagenum].content,
                   !.pages[page].dirty = FALSE]
    ELSE P

\* a Rebind where the rebound frame is left with pin count 0
RebindUnpinned(P, page, pagenum) ==
    [P EXCEPT !.pages[page] = [pagenum |-> pagenum, pinCount |-> 0, dirty |-> FALSE]]

\* The tail of NewPage: the frame is rebound.
Rebind(P, page, pagenum) ==
    [P EXCEPT !.pages[page] = [pagenum |-> pagenum, pinCount |-> 1, dirty |-> FALSE]]

\* Pager.NewPage: [p: the pager after the call, page: the frame or 0, err,
\* evicted: the page number the frame held when it was taken from the unpinned list]
NewPageFromFree(P, pagenum, link) ==
    [p |-> Rebind([P EXCEPT !.heap = PopSelf(P.heap, link)], GetKey(P.heap, link), pagenum),
     page |-> GetKey(P.heap, link), err |-> "", evicted |-> NOPAGE,
     from |-> "freeList"]

\* the victim is popped, flushed and dropped from the page table, then rebound
Evict(P, page) ==
    [P EXCEPT !.pageTable = MapDelete(P.pageTable, P.pages[page].pagenum)]

\* a NewPage that rebinds the victim before it flushes it
NewPageRebindFirst(P, pagenum, link) ==
    [p |-> FlushPage(Rebind(Evict([P EXCEPT !.heap = PopSelf(P.heap, link)],
                                  GetKey(P.heap, link)),
                            GetKey(P.heap, link), pagenum),
                     GetKey(P.heap, link)),
     page |-> GetKey(P.heap, link), err |-> "",
     evicted |-> P.pages[GetKey(P.heap, link)].pagenum, from |-> "unpinnedList"]

NewPageFromUnpinned(P, pagenum, link) ==
    [p |-> Rebind(Evict(FlushPage([P EXCEPT !.heap = PopSelf(P.heap, link)],
                                  GetKey(P.heap, link)),
                        GetKey(P.heap, link)),
                  GetKey(P.heap, link), pagenum),
     page |-> GetKey(P.heap, link), err |-> "",
     evicted |-> P.pages[GetKey(P.heap, link)].pagenum, from |-> "unpinnedList"]

\* a NewPage whose victim is the tail of the unpinned list
NewPageTailVictim(P, pagenum) ==
    IF PeekHead(P.heap, "freeList") # NIL
    THEN NewPageFromFree(P, pagenum, PeekHead(P.heap, "freeList"))
    ELSE IF ~P.hasFile
    THEN [p |-> P, page |-> 0, err |-> "pager is not backed by disk", evicted |-> NOPAGE,
          from |-> "none"]
    ELSE IF PeekTail(P.heap, "unpinnedList") # NIL
    THEN NewPageFromUnpinned(P, pagenum, PeekTail(P.heap, "unpinnedList"))
    ELSE [p |-> P, page |-> 0, err |-> "no page in either list", evicted |-> NOPAGE,
          from |-> "none"]

NewPage(P, pagenum) ==
    IF PeekHead(P.heap, "freeList") # NIL
    THEN NewPageFromFree(P, pagenum, PeekHead(P.heap, "freeList"))
    ELSE IF ~P.hasFile
    THEN [p |-> P, page |-> 0, err |-> "pager is not backed by disk", evicted |-> NOPAGE,
          from |-> "none"]
    ELSE IF PeekHead(P.heap, "unpinnedList") # NIL
    THEN NewPageFromUnpinned(P, pagenum, PeekHead(P.heap, "unpinnedList"))
    ELSE [p |-> P, page |-> 0, err |-> "no page in either list", evicted |-> NOPAGE,
          from |-> "none"]

\* Pager.ReadPageFromDisk: Seek and Read of a nil *os.File return an error; a
\* read at or past the end of the file (io.EOF) is not an error.
ReadPageFromDiskOK(P) == P.hasFile

\* file.Read(*page.data): the frame holds what the file holds at pagenum * PAGESIZE
ReadPageFromDisk(P, pagenum) == [P EXCEPT !.disk[pagenum].content = P.disk[pagenum].onDisk]

\* a page past maxPageNum is not read: its content is what the frame holds, the
\* victim's content, or zeros in a frame of the free list
FrameKept(np, pagenum) ==
    [np.p EXCEPT !.disk[pagenum].content =
        IF np.evicted = NOPAGE THEN 0 ELSE np.p.disk[np.evicted].content]

\* Page.Get: one more reference.
PageGet(P, page) == [P EXCEPT !.pages[page].pinCount = @ + 1]

\* pager.pageTable[pagenum] = list.PushTail(page)
PushAndMap(P, l, page, pagenum) ==
    [P EXCEPT !.heap = PushTail(P.heap, l, page),
              !.pageTable = MapPut(P.pageTable, pagenum, Len(P.heap.links) + 1)]

\* a GetPage where a page of the unpinned list is not moved
GetPageResidentNoMove(P, pagenum, node) ==
    [p |-> PageGet(P, GetKey(P.heap, node)),
     page |-> GetKey(P.heap, node), err |-> "", evicted |-> NOPAGE,
     from |-> GetList(P.heap, node)]

\* Pager.GetPage, the page is in the page table: [p, page, err, evicted]
GetPageResident(P, pagenum, node) ==
    [p |-> PageGet(IF GetList(P.heap, node) = "unpinnedList"
                   THEN PushAndMap([P EXCEPT !.heap = PopSelf(P.heap, node)],
                                   "pinnedList", GetKey(P.heap, node), pagenum)
                   ELSE P,
                   GetKey(P.heap, node)),
     page |-> GetKey(P.heap, node), err |-> "", evicted |-> NOPAGE,
     from |-> GetList(P.heap, node)]

\* Pager.GetPage, the page is not in the page table; np is what NewPage returned
GetPageNew(np, pagenum) ==
    IF np.err # ""
    THEN [p |-> np.p, page |-> 0, err |-> np.err, evicted |-> np.evicted, from |-> np.from]
    ELSE IF pagenum < np.p.maxPageNum
    THEN IF ReadPageFromDiskOK(np.p)
         THEN [p |-> PushAndMap(ReadPageFromDisk(np.p, pagenum),
                                "pinnedList", np.page, pagenum),
               page |-> np.page, err |-> "", evicted |-> np.evicted, from |-> np.from]
         ELSE [p |-> np.p, page |-> 0, err |-> "read", evicted |-> np.evicted,
               from |-> np.from]
    ELSE [p |-> PushAndMap([FrameKept(np, pagenum) EXCEPT !.pages[np.page].dirty = TRUE,
                                                          !.maxPageNum = @ + 1],
                           "pinnedList", np.page, pagenum),
          page |-> np.page, err |-> "", evicted |-> np.evicted, from |-> np.from]

GetPageOp(P, pagenum) ==
    IF pagenum < 0
    THEN [p |-> P, page |-> 0, err |-> "invalid page number", evicted |-> NOPAGE,
          from |-> "none"]
    ELSE IF pagenum \in DOMAIN P.pageTable
    THEN GetPageResident(P, pagenum, P.pageTable[pagenum])
    ELSE GetPageNew(NewPage(P, pagenum), pagenum)

\* Page.Put: one reference fewer; the page whose count reaches zero moves from
\* the pinned list to the tail of the unpinned list.
PutOp(P, page) ==
    IF P.pages[page].pinCount - 1 = 0
    THEN PushAndMap([P EXCEPT !.pages[page].pinCount = @ - 1,
                              !.heap = PopSelf(P.heap, P.pageTable[P.pages[page].pagenum])],
                    "unpinnedList", page, P.pages[page].pagenum)
    ELSE [P EXCEPT !.pages[page].pinCount = @ - 1]

\* A caller holds a reference to frame page: GetPage returned it and it was
\* not put back since.
Held(P, page) ==
    /\ P.pages[page].pinCount > 0
    /\ P.pages[page].pagenum \in DOMAIN P.pageTable
    /\ GetKey(P.heap, P.pageTable[P.pages[page].pagenum]) = page

SetPager(P) ==
    /\ hasFile' = P.hasFile
    /\ maxPageNum' = P.maxPageNum
    /\ pages' = P.pages
    /\ heap' = P.heap
    /\ pageTable' = P.pageTable
    /\ disk' = P.disk

\* no Checkpoint holds a lock of the pager
NoLocks == [ptMtx |-> FALSE, upd |-> {}]

NoPagerRet ==
    [op |-> "none", pagenum |-> NOPAGE, page |-> 0, err |-> "", evicted |-> NOPAGE,
     from |-> "none"]

PagerInit(P) ==
    /\ hasFile = P.hasFile
    /\ maxPageNum = P.maxPageNum
    /\ pages = P.pages
    /\ heap = P.heap
    /\ pageTable = P.pageTable
    /\ disk = P.disk
    /\ ptLocks = NoLocks
    /\ pagerRet = NoPagerRet
    /\ ListInit

\* the model's bounds on a Pager state
WithinPagerBounds(P) ==
    /\ Len(P.heap.links) <= MaxLinks
    /\ \A f \in Frames : P.pages[f].pinCount <= MaxPin

GetPageDo(r, pagenum) ==
    /\ WithinPagerBounds(r.p)
    /\ SetPager(r.p)
    /\ pagerRet' = [op |-> "GetPage", pagenum |-> pagenum, page |-> r.page,
                    err |-> r.err, evicted |-> r.evicted, from |-> r.from]
    /\ UNCHANGED <<ptLocks, listVars, notPager>>

\* A call of pager.GetPage(pagenum)
GetPage ==
    \E pagenum \in (0 - 1)..MaxPageNo :
       /\ ~heap.panic
       /\ pagenum >= 0 => ~ptLocks.ptMtx
       /\ GetPageDo(GetPageOp(ThePager, pagenum), pagenum)

PutDo(P, page) ==
    /\ WithinPagerBounds(P)
    /\ SetPager(P)
    /\ pagerRet' = [op |-> "Put", pagenum |-> pages[page].pagenum,
                    page |-> page, err |-> "", evicted |-> NOPAGE, from |-> "pinnedList"]
    /\ UNCHANGED <<ptLocks, listVars, notPager>>

\* A call of page.Put() by a holder of the page
Put ==
    \E page \in Frames :
       /\ ~heap.panic
       /\ Held(ThePager, page)
       /\ ~ptLocks.ptMtx
       /\ PutDo(PutOp(ThePager, page), page)

\* the frames of the pages in the page table
ResidentFrames(P) == {GetKey(P.heap, P.pageTable[pn]) : pn \in DOMAIN P.pageTable}

\* Page.Update: the holder writes into the frame, the page is dirty
PageUpdate(P, page) ==
    [P EXCEPT !.disk[P.pages[page].pagenum].content = @ + 1,
              !.pages[page].dirty = TRUE]

\* A call of page.Update by a holder of the page; it waits for the page's
\* update lock
Update ==
    \E page \in Frames :
       /\ ~heap.panic
       /\ Held(ThePager, page)
       /\ page \notin ptLocks.upd
       /\ disk[pages[page].pagenum].content < MaxVer
       /\ SetPager(PageUpdate(ThePager, page))
       /\ pagerRet' = [op |-> "Update", pagenum |-> pages[page].pagenum,
                       page |-> page, err |-> "", evicted |-> NOPAGE, from |-> "pinnedList"]
       /\ UNCHANGED <<ptLocks, listVars, notPager>>

\* Pager.FlushAllPages: FlushPage of every page in the page table
RECURSIVE FlushFrames(_, _)
FlushFrames(P, fs) ==
    IF fs = {} THEN P
    ELSE FlushFrames(FlushPage(P, CHOOSE f \in fs : TRUE), fs \ {CHOOSE f \in fs : TRUE})

\* a FlushAllPages that writes nothing
FlushNoPages(P) == P

FlushAllPages(P) == FlushFrames(P, ResidentFrames(P))

\* Pager.LockAllUpdates: ptMtx, then the update lock of every page in the table
LockAllUpdates(P, lk) == [ptMtx |-> TRUE, upd |-> lk.upd \cup ResidentFrames(P)]

\* an UnlockAllUpdates that releases nothing
UnlockNoUpdates(P, lk) == lk

\* Pager.UnlockAllUpdates: the update lock of every page in the table, then ptMtx
UnlockAllUpdates(P, lk) == [ptMtx |-> FALSE, upd |-> lk.upd \ ResidentFrames(P)]

----------------------------------------------------------------------------
(* The extendible-hash table.  A table is [depth, buckets, bpages]:        *)
(* buckets[i + 1] is the page number in directory slot i, bpages[pn + 1]   *)
(* is the bucket stored in page pn, [depth, entries].                      *)

Threads == 1..NumThreads

\* the keys Insert draws from: all in slot 0 at depth 2; 0, 8, 16 and 24
\* also agree at depth 3
Keys == {0, 8, 16, 24, 4}

\* the keys Find, Update and Delete draw from
ProbedKeys == {0, 4}

\* more keys for a caller that runs alone: all in slot 1 at depth 2
Slot1Keys == {1, 5, 9, 13}

AllKeys == Keys \cup Slot1Keys

INSERTED == 1        \* the value Insert stores
UPDATED == 2         \* the value Update stores
NOTFOUND == 0        \* NOTFOUND: no entry has the key
OK == 1              \* a nil error
ERR == 2             \* an error of the pager under the table

HashMul == 5
HashRange == 64

powInt(x, y) == x ^ y

\* the 64-bit hash of a key (its low bits decide the slot)
H(key) == (key * HashMul) % HashRange

\* Hasher(key, depth) = H(key) mod 2^depth
Hasher(key, depth) == H(key) % powInt(2, depth)

\* NewHashBucket: an empty bucket of the given local depth
NewHashBucket(depth) == [depth |-> depth, entries |-> <<>>]

\* NewHashTable: depth 2, four empty buckets of local depth 2 in pages 0..3
NewHashTable ==
    [depth |-> 2,
     buckets |-> [i \in 1..powInt(2, 2) |-> i - 1],
     bpages |-> [i \in 1..powInt(2, 2) |-> NewHashBucket(2)],
     overflow |-> FALSE]

\* the position of the first entry with the key, or 0 (the linear scan)
RECURSIVE ScanFrom(_, _, _)
ScanFrom(entries, key, i) ==
    IF i > Len(entries) THEN 0
    ELSE IF entries[i].key = key THEN i
    ELSE ScanFrom(entries, key, i + 1)

\* HashBucket.Find: the value of the first entry with the key, or "not found"
BucketFind(bucket, key) ==
    IF ScanFrom(bucket.entries, key, 1) = 0 THEN NOTFOUND
    ELSE bucket.entries[ScanFrom(bucket.entries, key, 1)].value

\* HashBucket.Insert: the entry is appended; the caller splits a full bucket
BucketInsert(bucket, key, value) ==
    [bucket EXCEPT !.entries = Append(@, [key |-> key, value |-> value])]

\* HashBucket.Update: the first entry with the key gets the value
BucketUpdate(bucket, key, value) ==
    IF ScanFrom(bucket.entries, key, 1) = 0 THEN bucket
    ELSE [bucket EXCEPT !.entries[ScanFrom(bucket.entries, key, 1)].value = value]

\* HashBucket.Delete: the first entry with the key is removed
BucketDelete(bucket, key) ==
    IF ScanFrom(bucket.entries, key, 1) = 0 THEN bucket
    ELSE [bucket EXCEPT !.entries =
             [i \in 1..(Len(@) - 1) |->
                 IF i < ScanFrom(bucket.entries, key, 1) THEN @[i] ELSE @[i + 1]]]

\* HashTable.ExtendTable
ExtendTable(t) ==
    [t EXCEPT !.depth = t.depth + 1, !.buckets = t.buckets \o t.buckets]

\* the entries Split moves to the new bucket (side = TRUE) or keeps
SplitEntries(entries, depth, newHash, side) ==
    SelectSeq(entries, LAMBDA e : (Hasher(e.key, depth) = newHash) = side)

\* a Split that points only slot newHash at the new page
PointToNewOnce(buckets, newHash, power, newPN) ==
    [i \in DOMAIN buckets |-> IF i - 1 = newHash THEN newPN ELSE buckets[i]]

\* for i := newHash; i < 2^table.depth; i += 2^power { buckets[i] = newPN }
PointToNew(buckets, newHash, power, newPN) ==
    [i \in DOMAIN buckets |->
        IF i - 1 >= newHash /\ ((i - 1) - newHash) % powInt(2, power) = 0
        THEN newPN
        ELSE buckets[i]]

\* Split after the directory was doubled if needed: the bucket's depth is
\* bumped, the new bucket takes the next page, the entries are divided and
\* the directory is pointed at the new page.
SplitOnce(t, pn, depth, newHash) ==
    [t EXCEPT
       !.bpages = Append([t.bpages EXCEPT ![pn + 1] =
                             [depth |-> depth,
                              entries |-> SplitEntries(t.bpages[pn + 1].entries, depth,
                                                       newHash, FALSE)]],
                         [depth |-> depth,
                          entries |-> SplitEntries(t.bpages[pn + 1].entries, depth,
                                                   newHash, TRUE)]),
       !.buckets = PointToNew(t.buckets, newHash, depth, Len(t.bpages))]

RECURSIVE Split(_, _, _)

\* the end of Split: a bucket still holding BUCKETSIZE keys is split again
SplitAgain(t, pn, newPN, oldHash, newHash) ==
    IF Len(t.bpages[pn + 1].entries) >= BUCKETSIZE THEN Split(t, pn, oldHash)
    ELSE IF Len(t.bpages[newPN + 1].entries) >= BUCKETSIZE THEN Split(t, newPN, newHash)
    ELSE t

\* HashTable.Split(bucket, hash); a split beyond MaxDepth is cut off
Split(t, pn, hash) ==
    IF t.bpages[pn + 1].depth >= MaxDepth THEN [t EXCEPT !.overflow = TRUE]
    ELSE SplitAgain(
            SplitOnce(IF t.bpages[pn + 1].depth = t.depth THEN ExtendTable(t) ELSE t,
                      pn, t.bpages[pn + 1].depth + 1,
                      (hash % powInt(2, t.bpages[pn + 1].depth))
                         + powInt(2, t.bpages[pn + 1].depth)),
            pn, Len(t.bpages),
            hash % powInt(2, t.bpages[pn + 1].depth),
            (hash % powInt(2, t.bpages[pn + 1].depth)) + powInt(2, t.bpages[pn + 1].depth))

\* the page number in the slot of the hash
BucketPN(t, hash) == t.buckets[hash + 1]

\* an Insert that splits only a bucket already holding BUCKETSIZE keys
InsertIntoBucketLate(t, pn, hash, key, value) ==
    IF Len(t.bpages[pn + 1].entries) >= BUCKETSIZE
    THEN Split([t EXCEPT !.bpages[pn + 1] = BucketInsert(@, key, value)], pn, hash)
    ELSE [t EXCEPT !.bpages[pn + 1] = BucketInsert(@, key, value)]

\* bucket.Insert then, when it reports a full bucket, table.Split
InsertIntoBucket(t, pn, hash, key, value) ==
    IF Len(t.bpages[pn + 1].entries) + 1 >= BUCKETSIZE
    THEN Split([t EXCEPT !.bpages[pn + 1] = BucketInsert(@, key, value)], pn, hash)
    ELSE [t EXCEPT !.bpages[pn + 1] = BucketInsert(@, key, value)]

\* HashTable.Insert / Find / Update / Delete of one caller alone
TableInsert(t, key, value) ==
    InsertIntoBucket(t, BucketPN(t, Hasher(key, t.depth)), Hasher(key, t.depth), key, value)

TableFind(t, key) == BucketFind(t.bpages[BucketPN(t, Hasher(key, t.depth)) + 1], key)

\* ---- locks: [w: the writer or 0, r: the readers] ----

Unlocked == [w |-> 0, r |-> {}]

CanLock(lk) == lk.w = 0 /\ lk.r = {}

CanRLock(lk) == lk.w = 0

Idle == [pc |-> "idle", op |-> "none", key |-> 0, hash |-> 0, pn |-> 0, ret |-> NOTFOUND]

HashInit ==
    /\ table = NewHashTable
    /\ tableLock = Unlocked
    /\ bucketLock = [pn \in 0..3 |-> Unlocked]
    /\ thr = [t \in Threads |-> Idle]
    /\ shadow = [k \in AllKeys |-> NOTFOUND]
    /\ everDeleted = FALSE

\* the locks of the pages a table has, those of new pages unlocked
LocksFor(t, locks) ==
    [pn \in 0..(Len(t.bpages) - 1) |-> IF pn \in DOMAIN locks THEN locks[pn] ELSE Unlocked]

\* another thread is in an Insert of the key
Inserting(key) == \E u \in Threads : thr[u].op = "Insert" /\ thr[u].key = key

\* ---- Find: RLock table, hash, lock the bucket, RUnlock table, scan ----

FindCall ==
    \E t \in Threads, key \in ProbedKeys :
       /\ thr[t].pc = "idle"
       /\ CanRLock(tableLock)
       /\ tableLock' = [tableLock EXCEPT !.r = @ \cup {t}]
       /\ thr' = [thr EXCEPT ![t] = [pc |-> "lockBucket", op |-> "Find", key |-> key,
                                     hash |-> Hasher(key, table.depth), pn |-> 0,
                                     ret |-> NOTFOUND]]
       /\ UNCHANGED <<table, bucketLock, shadow, everDeleted, notHash>>

FindLockBucket ==
    \E t \in Threads :
       /\ thr[t].pc = "lockBucket" /\ thr[t].op = "Find"
       /\ CanRLock(bucketLock[BucketPN(table, thr[t].hash)])
       /\ bucketLock' = [bucketLock EXCEPT ![BucketPN(table, thr[t].hash)].r = @ \cup {t}]
       /\ tableLock' = [tableLock EXCEPT !.r = @ \ {t}]
       /\ thr' = [thr EXCEPT ![t].pc = "locked", ![t].pn = BucketPN(table, thr[t].hash)]
       /\ UNCHANGED <<table, shadow, everDeleted, notHash>>

FindScan ==
    \E t \in Threads :
       /\ thr[t].pc = "locked" /\ thr[t].op = "Find"
       /\ bucketLock' = [bucketLock EXCEPT ![thr[t].pn].r = @ \ {t}]
       /\ thr' = [thr EXCEPT ![t] = [Idle EXCEPT !.op = "Find", !.key = thr[t].key,
                                        !.ret = BucketFind(table.bpages[thr[t].pn + 1],
                                                           thr[t].key)]]
       /\ UNCHANGED <<table, tableLock, shadow, everDeleted, notHash>>

\* no bucket is left with BUCKETSIZE keys by a Split that failed; the callers
\* here stop inserting into a table in that state
NoBucketFull(t) == \A i \in DOMAIN t.bpages : Len(t.bpages[i].entries) < BUCKETSIZE

\* ---- Insert: WLock table, hash, lock the bucket, WUnlock the table early
\* ---- when the bucket has room, insert, split, unlock ----

InsertCall ==
    \E t \in Threads, key \in Keys :
       /\ thr[t].pc = "idle"
       /\ shadow[key] = NOTFOUND /\ ~Inserting(key)
       /\ NoBucketFull(table)
       /\ CanLock(tableLock)
       /\ tableLock' = [tableLock EXCEPT !.w = t]
       /\ thr' = [thr EXCEPT ![t] = [pc |-> "lockBucket", op |-> "Insert", key |-> key,
                                     hash |-> Hasher(key, table.depth), pn |-> 0,
                                     ret |-> NOTFOUND]]
       /\ UNCHANGED <<table, bucketLock, shadow, everDeleted, notHash>>

\* an Insert that gives the table lock up before it knows the bucket has room
EarlyUnlockAlways(t, lk, pn) == [lk EXCEPT !.w = 0]

\* if bucket.numKeys < BUCKETSIZE - 1 { table.WUnlock() }
EarlyUnlock(t, lk, pn) ==
    IF Len(table.bpages[pn + 1].entries) < BUCKETSIZE - 1 THEN [lk EXCEPT !.w = 0] ELSE lk

InsertLockBucket ==
    \E t \in Threads :
       /\ thr[t].pc = "lockBucket" /\ thr[t].op = "Insert"
       /\ CanLock(bucketLock[BucketPN(table, thr[t].hash)])
       /\ bucketLock' = [bucketLock EXCEPT ![BucketPN(table, thr[t].hash)].w = t]
       /\ tableLock' = EarlyUnlock(t, tableLock, BucketPN(table, thr[t].hash))
       /\ thr' = [thr EXCEPT ![t].pc = "locked", ![t].pn = BucketPN(table, thr[t].hash)]
       /\ UNCHANGED <<table, shadow, everDeleted, notHash>>

\* an Insert whose deferred table.WUnlock() is never registered
UnlockAfterInsertNever(t, lk, split) == lk

\* the deferred table.WUnlock() runs only on the path through Split
UnlockAfterInsert(t, lk, split) ==
    IF split THEN [lk EXCEPT !.w = 0] ELSE lk

InsertDone(t, new, split) ==
    /\ ~new.overflow
    /\ table' = new
    /\ bucketLock' = LocksFor(new, [bucketLock EXCEPT ![thr[t].pn].w = 0])
    /\ tableLock' = UnlockAfterInsert(t, tableLock, split)
    /\ shadow' = [shadow EXCEPT ![thr[t].key] = INSERTED]
    /\ thr' = [thr EXCEPT ![t] = [Idle EXCEPT !.ret = OK]]
    /\ UNCHANGED <<everDeleted, notHash>>

InsertDo ==
    \E t \in Threads :
       /\ thr[t].pc = "locked" /\ thr[t].op = "Insert"
       /\ InsertDone(t, InsertIntoBucket(table, thr[t].pn, thr[t].hash, thr[t].key, INSERTED),
                     Len(table.bpages[thr[t].pn + 1].entries) + 1 >= BUCKETSIZE)

\* GetAndLockBucket returns an error: table.WUnlock(), return err
InsertLookupFails ==
    \E t \in Threads :
       /\ thr[t].pc = "lockBucket" /\ thr[t].op = "Insert"
       /\ tableLock' = [tableLock EXCEPT !.w = 0]
       /\ thr' = [thr EXCEPT ![t] = [Idle EXCEPT !.ret = ERR]]
       /\ UNCHANGED <<table, bucketLock, shadow, everDeleted, notHash>>

\* Split up to a NewHashBucket that returns an error: the directory may have
\* been doubled and the bucket's depth has been bumped
SplitFails(t, pn) ==
    [(IF t.bpages[pn + 1].depth = t.depth THEN ExtendTable(t) ELSE t)
        EXCEPT !.bpages[pn + 1].depth = @ + 1]

\* bucket.Insert reports a full bucket and Split returns an error: the
\* deferred table.WUnlock() and bucket.WUnlock() run
\* HashTable.Split with the frames it pins: Insert holds the bucket's page and
\* every level holds its new bucket's page until it returns (the deferred
\* Put), so NewHashBucket fails once every frame of the pager is pinned.
\* [t: the table, err]
RECURSIVE SplitPinned(_, _, _, _)

SplitAgainPinned(t, pn, newPN, oldHash, newHash, pinned) ==
    IF Len(t.bpages[pn + 1].entries) >= BUCKETSIZE THEN SplitPinned(t, pn, oldHash, pinned)
    ELSE IF Len(t.bpages[newPN + 1].entries) >= BUCKETSIZE
    THEN SplitPinned(t, newPN, newHash, pinned)
    ELSE [t |-> t, err |-> OK]

SplitPinned(t, pn, hash, pinned) ==
    IF pinned >= NUMPAGES THEN [t |-> SplitFails(t, pn), err |-> ERR]
    ELSE SplitAgainPinned(
            SplitOnce(IF t.bpages[pn + 1].depth = t.depth THEN ExtendTable(t) ELSE t,
                      pn, t.bpages[pn + 1].depth + 1,
                      (hash % powInt(2, t.bpages[pn + 1].depth))
                         + powInt(2, t.bpages[pn + 1].depth)),
            pn, Len(t.bpages),
            hash % powInt(2, t.bpages[pn + 1].depth),
            (hash % powInt(2, t.bpages[pn + 1].depth)) + powInt(2, t.bpages[pn + 1].depth),
            pinned + 1)

\* HashTable.Insert of one caller alone on a table whose pager has NUMPAGES frames
InsertPinned(t, pn, hash, key, value) ==
    IF Len(t.bpages[pn + 1].entries) + 1 >= BUCKETSIZE
    THEN SplitPinned([t EXCEPT !.bpages[pn + 1] = BucketInsert(@, key, value)], pn, hash, 1)
    ELSE [t |-> [t EXCEPT !.bpages[pn + 1] = BucketInsert(@, key, value)], err |-> OK]

InsertSplitFails ==
    \E t \in Threads :
       /\ thr[t].pc = "locked" /\ thr[t].op = "Insert"
       /\ Len(table.bpages[thr[t].pn + 1].entries) + 1 >= BUCKETSIZE
       /\ table.bpages[thr[t].pn + 1].depth < MaxDepth
       /\ table' = SplitFails([table EXCEPT !.bpages[thr[t].pn + 1] =
                                   BucketInsert(@, thr[t].key, INSERTED)], thr[t].pn)
       /\ bucketLock' = [bucketLock EXCEPT ![thr[t].pn].w = 0]
       /\ tableLock' = UnlockAfterInsert(t, tableLock, TRUE)
       /\ shadow' = [shadow EXCEPT ![thr[t].key] = INSERTED]
       /\ thr' = [thr EXCEPT ![t] = [Idle EXCEPT !.ret = ERR]]
       /\ UNCHANGED <<everDeleted, notHash>>

\* ---- Select: RLock table until the return; each bucket page in turn is
\* ---- read-locked, read and unlocked ----

SelectCall ==
    \E t \in Threads :
       /\ thr[t].pc = "idle"
       /\ CanRLock(tableLock)
       /\ tableLock' = [tableLock EXCEPT !.r = @ \cup {t}]
       /\ thr' = [thr EXCEPT ![t] = [pc |-> "lockBucket", op |-> "Select", key |-> 0,
                                     hash |-> 0, pn |-> 0, ret |-> NOTFOUND]]
       /\ UNCHANGED <<table, bucketLock, shadow, everDeleted, notHash>>

SelectLockBucket ==
    \E t \in Threads :
       /\ thr[t].pc = "lockBucket" /\ thr[t].op = "Select"
       /\ CanRLock(bucketLock[thr[t].pn])
       /\ bucketLock' = [bucketLock EXCEPT ![thr[t].pn].r = @ \cup {t}]
       /\ thr' = [thr EXCEPT ![t].pc = "locked"]
       /\ UNCHANGED <<table, tableLock, shadow, everDeleted, notHash>>

\* a Select that leaves the bucket read-locked
SelectKeepsBucket(lk, t) == lk

\* bucket.RUnlock() after bucket.Select()
SelectUnlock(lk, t) == [lk EXCEPT !.r = @ \ {t}]

\* the bucket is read and unlocked; after the last page the deferred
\* table.RUnlock() runs
SelectRead ==
    \E t \in Threads :
       /\ thr[t].pc = "locked" /\ thr[t].op = "Select"
       /\ bucketLock' = [bucketLock EXCEPT ![thr[t].pn] = SelectUnlock(@, t)]
       /\ IF thr[t].pn + 1 < Len(table.bpages)
          THEN /\ thr' = [thr EXCEPT ![t].pc = "lockBucket", ![t].pn = @ + 1]
               /\ UNCHANGED tableLock
          ELSE /\ thr' = [thr EXCEPT ![t] = [Idle EXCEPT !.ret = OK]]
               /\ tableLock' = [tableLock EXCEPT !.r = @ \ {t}]
       /\ UNCHANGED <<table, shadow, everDeleted, notHash>>

\* ---- Update and Delete: RLock table, hash, lock the bucket for writing,
\* ---- RUnlock table, change the bucket, unlock ----

UpdateCall ==
    \E t \in Threads, key \in ProbedKeys :
       /\ thr[t].pc = "idle"
       /\ CanRLock(tableLock)
       /\ tableLock' = [tableLock EXCEPT !.r = @ \cup {t}]
       /\ thr' = [thr EXCEPT ![t] = [pc |-> "lockBucket", op |-> "Update", key |-> key,
                                     hash |-> Hasher(key, table.depth), pn |-> 0,
                                     ret |-> NOTFOUND]]
       /\ UNCHANGED <<table, bucketLock, shadow, everDeleted, notHash>>

UpdateLockBucket ==
    \E t \in Threads :
       /\ thr[t].pc = "lockBucket" /\ thr[t].op = "Update"
       /\ CanLock(bucketLock[BucketPN(table, thr[t].hash)])
       /\ bucketLock' = [bucketLock EXCEPT ![BucketPN(table, thr[t].hash)].w = t]
       /\ tableLock' = [tableLock EXCEPT !.r = @ \ {t}]
       /\ thr' = [thr EXCEPT ![t].pc = "locked", ![t].pn = BucketPN(table, thr[t].hash)]
       /\ UNCHANGED <<table, shadow, everDeleted, notHash>>

UpdateDo ==
    \E t \in Threads :
       /\ thr[t].pc = "locked" /\ thr[t].op = "Update"
       /\ table' = [table EXCEPT !.bpages[thr[t].pn + 1] = BucketUpdate(@, thr[t].key, UPDATED)]
       /\ bucketLock' = [bucketLock EXCEPT ![thr[t].pn].w = 0]
       /\ shadow' = IF BucketFind(table.bpages[thr[t].pn + 1], thr[t].key) = NOTFOUND
                    THEN shadow
                    ELSE [shadow EXCEPT ![thr[t].key] = UPDATED]
       /\ thr' = [thr EXCEPT ![t] = [Idle EXCEPT !.ret =
                     IF BucketFind(table.bpages[thr[t].pn + 1], thr[t].key) = NOTFOUND
                     THEN NOTFOUND ELSE OK]]
       /\ UNCHANGED <<tableLock, everDeleted, notHash>>

DeleteCall ==
    \E t \in Threads, key \in ProbedKeys :
       /\ thr[t].pc = "idle"
       /\ CanRLock(tableLock)
       /\ tableLock' = [tableLock EXCEPT !.r = @ \cup {t}]
       /\ thr' = [thr EXCEPT ![t] = [pc |-> "lockBucket", op |-> "Delete", key |-> key,
                                     hash |-> Hasher(key, table.depth), pn |-> 0,
                                     ret |-> NOTFOUND]]
       /\ UNCHANGED <<table, bucketLock, shadow, everDeleted, notHash>>

DeleteLockBucket ==
    \E t \in Threads :
       /\ thr[t].pc = "lockBucket" /\ thr[t].op = "Delete"
       /\ CanLock(bucketLock[BucketPN(table, thr[t].hash)])
       /\ bucketLock' = [bucketLock EXCEPT ![BucketPN(table, thr[t].hash)].w = t]
       /\ tableLock' = [tableLock EXCEPT !.r = @ \ {t}]
       /\ thr' = [thr EXCEPT ![t].pc = "locked", ![t].pn = BucketPN(table, thr[t].hash)]
       /\ UNCHANGED <<table, shadow, everDeleted, notHash>>

DeleteDo ==
    \E t \in Threads :
       /\ thr[t].pc = "locked" /\ thr[t].op = "Delete"
       /\ table' = [table EXCEPT !.bpages[thr[t].pn + 1] = BucketDelete(@, thr[t].key)]
       /\ bucketLock' = [bucketLock EXCEPT ![thr[t].pn].w = 0]
       /\ shadow' = IF BucketFind(table.bpages[thr[t].pn + 1], thr[t].key) = NOTFOUND
                    THEN shadow
                    ELSE [shadow EXCEPT ![thr[t].key] = NOTFOUND]
       /\ everDeleted' =
             (everDeleted \/ BucketFind(table.bpages[thr[t].pn + 1], thr[t].key) # NOTFOUND)
       /\ thr' = [thr EXCEPT ![t] = [Idle EXCEPT !.ret =
                     IF BucketFind(table.bpages[thr[t].pn + 1], thr[t].key) = NOTFOUND
                     THEN NOTFOUND ELSE OK]]
       /\ UNCHANGED <<tableLock, notHash>>

\* ---- one caller alone: each call runs from its first lock to its last
\* ---- unlock with no other call in between ----

NoCallRunning == \A t \in Threads : thr[t].pc = "idle"

\* keys for a caller that inserts a key again: 0 and 64 have the same hash
CollidingKeys == {0, 64, 8, 4, 1}

InsertCollidingDone(r, key) ==
    /\ table' = r.t
    /\ bucketLock' = LocksFor(r.t, bucketLock)
    /\ thr' = [thr EXCEPT ![1] = [Idle EXCEPT !.key = key, !.ret = r.err]]
    /\ UNCHANGED <<tableLock, shadow, everDeleted, notHash>>

InsertColliding ==
    \E key \in CollidingKeys :
       /\ NoCallRunning
       /\ NoBucketFull(table)
       /\ InsertCollidingDone(InsertPinned(table, BucketPN(table, Hasher(key, table.depth)),
                                           Hasher(key, table.depth), key, INSERTED), key)

InsertAloneDone(new, key) ==
    /\ ~new.overflow
    /\ table' = new
    /\ bucketLock' = LocksFor(new, bucketLock)
    /\ shadow' = [shadow EXCEPT ![key] = INSERTED]
    /\ UNCHANGED <<tableLock, thr, everDeleted, notHash>>

InsertAlone ==
    \E key \in AllKeys :
       /\ NoCallRunning
       /\ shadow[key] = NOTFOUND
       /\ InsertAloneDone(TableInsert(table, key, INSERTED), key)

UpdateAlone ==
    \E key \in ProbedKeys :
       /\ NoCallRunning
       /\ TableFind(table, key) # NOTFOUND
       /\ table' = [table EXCEPT !.bpages[BucketPN(table, Hasher(key, table.depth)) + 1] =
                        BucketUpdate(@, key, UPDATED)]
       /\ shadow' = [shadow EXCEPT ![key] = UPDATED]
       /\ UNCHANGED <<tableLock, bucketLock, thr, everDeleted, notHash>>

DeleteAlone ==
    \E key \in AllKeys :
       /\ NoCallRunning
       /\ TableFind(table, key) # NOTFOUND
       /\ table' = [table EXCEPT !.bpages[BucketPN(table, Hasher(key, table.depth)) + 1] =
                        BucketDelete(@, key)]
       /\ shadow' = [shadow EXCEPT ![key] = NOTFOUND]
       /\ everDeleted' = TRUE
       /\ UNCHANGED <<tableLock, bucketLock, thr, notHash>>

----------------------------------------------------------------------------
(* The Bloom filter and the hash join *)

\* the two hash functions of the filter, reduced to the filter's size
XxHasher(key, size) == H(key) % size

MurmurHasher(key, size) == (key * 7 + 3) % size

CreateFilter(size) == [size |-> size, bits |-> {}]

\* an Insert that sets the first hash position only
BloomInsertXxOnly(filter, key) ==
    [filter EXCEPT !.bits = @ \cup {XxHasher(key, filter.size)}]

BloomInsert(filter, key) ==
    [filter EXCEPT !.bits = @ \cup {XxHasher(key, filter.size),
                                    MurmurHasher(key, filter.size)}]

Contains(filter, key) ==
    /\ XxHasher(key, filter.size) \in filter.bits
    /\ MurmurHasher(key, filter.size) \in filter.bits

\* bf := CreateFilter(DEFAULT_FILTER_SIZE); bf.Insert(key) for every left entry
RECURSIVE FilterFrom(_, _, _)
FilterFrom(filter, entries, i) ==
    IF i > Len(entries) THEN filter
    ELSE FilterFrom(BloomInsert(filter, entries[i].key), entries, i + 1)

FilterOf(entries) == FilterFrom(CreateFilter(DEFAULT_FILTER_SIZE), entries, 1)

\* the sizes and keys of a filter used on its own
BloomSizes == {8, 16, DEFAULT_FILTER_SIZE}

BloomKeys == 0..6

BloomInit(size) ==
    /\ bloom = CreateFilter(size)
    /\ bfKeys = {}

BloomIdle == BloomInit(DEFAULT_FILTER_SIZE)

\* filter.Insert(key)
FilterInsert ==
    \E key \in BloomKeys :
       /\ bloom' = BloomInsert(bloom, key)
       /\ bfKeys' = bfKeys \cup {key}
       /\ UNCHANGED notBloom

\* the join-side fields the inputs draw from, and what the other field of
\* a left and of a right entry holds
JoinKeys == {0, 8, 16, 4, 1}

LeftPayload == 100
RightPayload == 200

\* the entry of an input table whose join-side field is f
EntryOf(f, payload, onKey) ==
    IF onKey THEN [key |-> f, value |-> payload + f]
    ELSE [key |-> payload + f, value |-> f]

\* the entries of an input table in cursor order
RECURSIVE TableOf(_, _, _)
TableOf(fields, payload, onKey) ==
    IF fields = {} THEN <<>>
    ELSE <<EntryOf(CHOOSE f \in fields : \A g \in fields : f <= g, payload, onKey)>>
         \o TableOf(fields \ {CHOOSE f \in fields : \A g \in fields : f <= g},
                    payload, onKey)

\* buildHashIndex: every entry of the source goes into a fresh table, as
\* (key, value) or transposed
RECURSIVE BuildFrom(_, _, _, _)
BuildFrom(t, source, i, useKey) ==
    IF i > Len(source) THEN t
    ELSE BuildFrom(IF useKey THEN TableInsert(t, source[i].key, source[i].value)
                   ELSE TableInsert(t, source[i].value, source[i].key),
                   source, i + 1, useKey)

buildHashIndex(sourceTable, useKey) == BuildFrom(NewHashTable, sourceTable, 1, useKey)

\* for leftHashTable.GetDepth() != rightHashTable.GetDepth() { extend the smaller }
RECURSIVE Align(_, _)
Align(l, r) ==
    IF l.depth = r.depth THEN [l |-> l, r |-> r]
    ELSE IF l.depth < r.depth THEN Align(ExtendTable(l), r)
    ELSE Align(l, ExtendTable(r))

NewTask(lpn, rpn) == [l |-> lpn, r |-> rpn, pc |-> "ready", i |-> 1, j |-> 1, err |-> "none"]

\* a Join that starts a task for every directory slot
RECURSIVE DispatchAll(_, _, _, _, _)
DispatchAll(leftBuckets, rightBuckets, i, seenList, ts) ==
    IF i > Len(leftBuckets) THEN ts
    ELSE DispatchAll(leftBuckets, rightBuckets, i + 1, seenList,
                     Append(ts, NewTask(leftBuckets[i], rightBuckets[i])))

\* the loop over the directory: one task per bucket pair not seen before
RECURSIVE Dispatch(_, _, _, _, _)
Dispatch(leftBuckets, rightBuckets, i, seenList, ts) ==
    IF i > Len(leftBuckets) THEN ts
    ELSE IF <<leftBuckets[i], rightBuckets[i]>> \in seenList
    THEN Dispatch(leftBuckets, rightBuckets, i + 1, seenList, ts)
    ELSE Dispatch(leftBuckets, rightBuckets, i + 1,
                  seenList \cup {<<leftBuckets[i], rightBuckets[i]>>},
                  Append(ts, NewTask(leftBuckets[i], rightBuckets[i])))

\* Join up to its return
JoinTables(in) ==
    Align(buildHashIndex(in.leftTable, in.joinOnLeftKey),
          buildHashIndex(in.rightTable, in.joinOnRightKey))

JoinTasks(jt) == Dispatch(jt.l.buckets, jt.r.buckets, 1, {}, <<>>)

LEntries(task) == joinTables.l.bpages[task.l + 1].entries

REntries(task) == joinTables.r.bpages[task.r + 1].entries

\* the next (i, j) at or after the task's position where the right entry
\* passes the filter and the left entry has its key; <<0, 0>> at the end
RECURSIVE NextMatch(_, _, _, _, _)
NextMatch(entriesInL, entriesInR, bf, i, j) ==
    IF i > Len(entriesInR) THEN <<0, 0>>
    ELSE IF ~Contains(bf, entriesInR[i].key) THEN NextMatch(entriesInL, entriesInR, bf, i + 1, 1)
    ELSE IF j > Len(entriesInL) THEN NextMatch(entriesInL, entriesInR, bf, i + 1, 1)
    ELSE IF entriesInL[j].key = entriesInR[i].key THEN <<i, j>>
    ELSE NextMatch(entriesInL, entriesInR, bf, i, j + 1)

TaskNext(task) ==
    NextMatch(LEntries(task), REntries(task), FilterOf(LEntries(task)), task.i, task.j)

\* a probe that returns the entry as the temporary index stores it
ReturnedAsStored(e, onKey) == [key |-> e.key, value |-> e.value]

\* leftRet / rightRet: the entry in the orientation of its input table
Returned(e, onKey) ==
    IF onKey THEN [key |-> e.key, value |-> e.value]
    ELSE [key |-> e.value, value |-> e.key]

PairAt(task, ij) ==
    [l |-> Returned(LEntries(task)[ij[2]], joinIn.joinOnLeftKey),
     r |-> Returned(REntries(task)[ij[1]], joinIn.joinOnRightKey)]

JoinInputs ==
    {[leftTable |-> TableOf(lf, LeftPayload, lk), rightTable |-> TableOf(rf, RightPayload, rk),
      joinOnLeftKey |-> lk, joinOnRightKey |-> rk] :
        lf \in SUBSET JoinKeys \ {{}}, rf \in SUBSET JoinKeys \ {{}},
        lk \in BOOLEAN, rk \in BOOLEAN}

JoinInit(in) ==
    /\ joinIn = in
    /\ joinPc = "init"
    /\ joinTables = [l |-> NewHashTable, r |-> NewHashTable]
    /\ tasks = <<>>
    /\ resultsChan = <<>>
    /\ received = {}
    /\ ctxDone = FALSE

JoinIdle == JoinInit([leftTable |-> <<>>, rightTable |-> <<>>,
                      joinOnLeftKey |-> TRUE, joinOnRightKey |-> TRUE])

\* Join: build both indexes, align them, start the probe tasks, return
Join ==
    /\ joinPc = "init"
    /\ joinPc' = "probing"
    /\ joinTables' = JoinTables(joinIn)
    /\ tasks' = JoinTasks(JoinTables(joinIn))
    /\ UNCHANGED <<joinIn, resultsChan, received, ctxDone, notJoin>>

\* probeBuckets up to the filter: Select both buckets, compare their depths
ProbeStart ==
    \E k \in DOMAIN tasks :
       /\ tasks[k].pc = "ready"
       /\ IF joinTables.l.bpages[tasks[k].l + 1].depth # joinTables.r.bpages[tasks[k].r + 1].depth
          THEN /\ tasks' = [tasks EXCEPT ![k].pc = "done", ![k].err = "depth"]
               /\ ctxDone' = TRUE
          ELSE /\ tasks' = [tasks EXCEPT ![k].pc = "scan"]
               /\ UNCHANGED ctxDone
       /\ UNCHANGED <<joinIn, joinPc, joinTables, resultsChan, received, notJoin>>

\* sendResult, case resultsChan <- result
ProbeSend ==
    \E k \in DOMAIN tasks :
       /\ tasks[k].pc = "scan"
       /\ TaskNext(tasks[k]) # <<0, 0>>
       /\ Len(resultsChan) < ChanCap
       /\ resultsChan' = Append(resultsChan, PairAt(tasks[k], TaskNext(tasks[k])))
       /\ tasks' = [tasks EXCEPT ![k].i = TaskNext(tasks[k])[1],
                                 ![k].j = TaskNext(tasks[k])[2] + 1]
       /\ UNCHANGED <<joinIn, joinPc, joinTables, received, ctxDone, notJoin>>

\* a sendResult that only sends and never looks at the context
CtxNeverReady(done) == FALSE

\* case <-ctx.Done() of sendResult's select can be taken
CtxDoneReady(done) == done

\* sendResult, case <-ctx.Done(): the task returns ctx.Err()
ProbeCancelled ==
    \E k \in DOMAIN tasks :
       /\ tasks[k].pc = "scan"
       /\ TaskNext(tasks[k]) # <<0, 0>>
       /\ CtxDoneReady(ctxDone)
       /\ tasks' = [tasks EXCEPT ![k].pc = "done", ![k].err = "cancelled"]
       /\ UNCHANGED <<joinIn, joinPc, joinTables, resultsChan, received, ctxDone, notJoin>>

\* the loops are through: return nil
ProbeReturn ==
    \E k \in DOMAIN tasks :
       /\ tasks[k].pc = "scan"
       /\ TaskNext(tasks[k]) = <<0, 0>>
       /\ tasks' = [tasks EXCEPT ![k].pc = "done", ![k].err = "nil"]
       /\ UNCHANGED <<joinIn, joinPc, joinTables, resultsChan, received, ctxDone, notJoin>>

\* the consumer takes a pair from the channel
Receive ==
    /\ resultsChan # <<>>
    /\ received' = received \cup {Head(resultsChan)}
    /\ resultsChan' = Tail(resultsChan)
    /\ UNCHANGED <<joinIn, joinPc, joinTables, tasks, ctxDone, notJoin>>

----------------------------------------------------------------------------
(* The recovery manager.  A record R = [db, log, txStack, tm, active, err]  *)
(* is what a call works on: the database, the log file, rm.txStack, the     *)
(* transaction manager, Recover's currentActivate and the error so far.     *)

Clients == {1, 2}

RecKeys == {5, 6}

INSERTVAL == 50      \* the value clients insert
UPDATEVAL == 99      \* the value clients update to

Rec(type, id, action, key, oldval, newval, ids) ==
    [type |-> type, id |-> id, action |-> action, key |-> key,
     oldval |-> oldval, newval |-> newval, ids |-> ids]

tableLog == Rec("TABLE", 0, "", 0, 0, 0, {})

editLog(id, action, key, oldval, newval) == Rec("EDIT", id, action, key, oldval, newval, {})

startLog(id) == Rec("START", id, "", 0, 0, 0, {})

commitLog(id) == Rec("COMMIT", id, "", 0, 0, 0, {})

checkpointLog(ids) == Rec("CHECKPOINT", 0, "", 0, 0, 0, ids)

NoData == [k \in RecKeys |-> NOTFOUND]

\* rm.txStack[id] = append(rm.txStack[id], log)
StackAppend(stack, id, rec) ==
    MapPut(stack, id, IF id \in DOMAIN stack THEN Append(stack[id], rec) ELSE <<rec>>)

\* RecoveryManager.Start
RmStart(R, id) ==
    [R EXCEPT !.log = Append(@, startLog(id)),
              !.txStack = StackAppend(@, id, startLog(id))]

\* RecoveryManager.Edit
RmEdit(R, rec) ==
    [R EXCEPT !.log = Append(@, rec), !.txStack = StackAppend(@, rec.id, rec)]

\* RecoveryManager.Commit: the stack is deleted, the record written, and the
\* record appended to the (new) stack of the id
RmCommit(R, id) ==
    [R EXCEPT !.log = Append(@, commitLog(id)),
              !.txStack = StackAppend(MapDelete(@, id), id, commitLog(id))]

\* RecoveryManager.Checkpoint up to the record: every key of txStack is listed
RmCheckpoint(R) == [R EXCEPT !.log = Append(@, checkpointLog(DOMAIN R.txStack))]

\* tm.Begin; a transaction already running is an error the callers drop
TmBegin(t, id) == IF id \in DOMAIN t THEN t ELSE MapPut(t, id, {})

RECURSIVE TmBeginAll(_, _)
TmBeginAll(t, ids) ==
    IF ids = {} THEN t
    ELSE TmBeginAll(TmBegin(t, CHOOSE id \in ids : TRUE), ids \ {CHOOSE id \in ids : TRUE})

\* tm.Commit releases the locks of the transaction
TmCommit(t, id) == MapDelete(t, id)

LockedByOther(t, id, key) == \E o \in (DOMAIN t) \ {id} : key \in t[o]

\* db.HandleInsert / HandleUpdate / HandleDelete on the one table
DbValid(d, action, key) ==
    /\ d.exists
    /\ IF action = "INSERT" THEN d.data[key] = NOTFOUND ELSE d.data[key] # NOTFOUND

DbApply(d, action, key, val) ==
    [d EXCEPT !.data[key] = IF action = "DELETE" THEN NOTFOUND ELSE val]

\* why the recovery package's HandleInsert / HandleUpdate / HandleDelete
\* fails, or "nil"
HandleErr(R, id, action, key) ==
    IF id \notin DOMAIN R.tm THEN "no transaction"
    ELSE IF LockedByOther(R.tm, id, key) THEN "locked"
    ELSE IF ~DbValid(R.db, action, key) THEN "handler"
    ELSE "nil"

\* HandleInsert / HandleUpdate / HandleDelete of the recovery package: lock
\* the key for the transaction, log the edit, change the table
Handle(R, id, action, key, val) ==
    IF HandleErr(R, id, action, key) # "nil" THEN [R EXCEPT !.err = HandleErr(R, id, action, key)]
    ELSE [RmEdit(R, editLog(id, action, key, R.db.data[key], val))
             EXCEPT !.tm[id] = @ \cup {key},
                    !.db = DbApply(R.db, action, key, val)]

\* db.HandleInsert / HandleUpdate / HandleDelete as Redo calls them: the
\* table after the call and the error
DbHandle(d, action, key, val) ==
    IF DbValid(d, action, key)
    THEN [db |-> DbApply(d, action, key, val), err |-> "nil"]
    ELSE [db |-> d, err |-> "handler"]

\* a Redo that calls the handler of the record's action and nothing else
RedoEditNoFallback(d, rec) == DbHandle(d, rec.action, rec.key, rec.newval)

\* RecoveryManager.Redo of an edit: an INSERT that fails is tried as an
\* UPDATE, an UPDATE that fails is tried as an INSERT, a DELETE is tried once
RedoEdit(d, rec) ==
    IF rec.action = "INSERT"
    THEN IF DbHandle(d, "INSERT", rec.key, rec.newval).err = "nil"
         THEN DbHandle(d, "INSERT", rec.key, rec.newval)
         ELSE DbHandle(d, "UPDATE", rec.key, rec.newval)
    ELSE IF rec.action = "UPDATE"
    THEN IF DbHandle(d, "UPDATE", rec.key, rec.newval).err = "nil"
         THEN DbHandle(d, "UPDATE", rec.key, rec.newval)
         ELSE DbHandle(d, "INSERT", rec.key, rec.newval)
    ELSE DbHandle(d, "DELETE", rec.key, 0)

\* the table after Redo of an edit; Recover drops the error
Redo(d, rec) == RedoEdit(d, rec).db

\* an Undo that changes the table without going through the logging handlers
UndoUnlogged(R, rec) ==
    IF ~DbValid(R.db, IF rec.action = "DELETE" THEN "INSERT" ELSE "UPDATE", rec.key)
    THEN [R EXCEPT !.err = "handler"]
    ELSE IF rec.action = "INSERT" THEN [R EXCEPT !.db = DbApply(@, "DELETE", rec.key, 0)]
    ELSE [R EXCEPT !.db = DbApply(@, "UPDATE", rec.key, rec.oldval)]

\* RecoveryManager.Undo
Undo(R, rec) ==
    IF rec.action = "INSERT" THEN Handle(R, rec.id, "DELETE", rec.key, 0)
    ELSE IF rec.action = "UPDATE" THEN Handle(R, rec.id, "UPDATE", rec.key, rec.oldval)
    ELSE Handle(R, rec.id, "INSERT", rec.key, rec.oldval)

\* what RecoveryManager.Redo returns for an edit: "nil", or the error of the
\* db handler left after the INSERT / UPDATE fallback
RedoErr(d, rec) == RedoEdit(d, rec).err

\* readLogs: the position of the most recent checkpoint, 1 if there is none
RECURSIVE LastCheckpoint(_, _)
LastCheckpoint(logs, i) ==
    IF i = 0 THEN 1
    ELSE IF logs[i].type = "CHECKPOINT" THEN i
    ELSE LastCheckpoint(logs, i - 1)

\* one record of Recover's forward pass
RedoStep(R, rec) ==
    IF rec.type = "TABLE"
    THEN [R EXCEPT !.db = IF R.db.exists THEN R.db ELSE [exists |-> TRUE, data |-> NoData]]
    ELSE IF rec.type = "CHECKPOINT"
    THEN [R EXCEPT !.active = @ \cup rec.ids, !.tm = TmBeginAll(@, rec.ids)]
    ELSE IF rec.type = "EDIT"
    THEN [R EXCEPT !.active = @ \cup {rec.id}, !.db = Redo(@, rec)]
    ELSE IF rec.type = "START"
    THEN [R EXCEPT !.active = @ \cup {rec.id}, !.tm = TmBegin(@, rec.id)]
    ELSE [R EXCEPT !.active = @ \ {rec.id}, !.tm = TmCommit(@, rec.id)]

RECURSIVE Forward(_, _, _)
Forward(R, logs, ptr) ==
    IF ptr > Len(logs) THEN R ELSE Forward(RedoStep(R, logs[ptr]), logs, ptr + 1)

\* rm.Commit(id) then tm.Commit(id) at the START of an undone transaction
CommitUndone(R, id) ==
    IF id \notin DOMAIN R.tm
    THEN [RmCommit(R, id) EXCEPT !.active = @ \ {id}, !.err = "no transaction"]
    ELSE [RmCommit(R, id) EXCEPT !.active = @ \ {id}, !.tm = TmCommit(@, id)]

\* a backward pass that undoes edits and writes nothing at a START
UndoStepEditsOnly(R, rec) ==
    IF rec.type = "EDIT" /\ rec.id \in R.active THEN Undo(R, rec) ELSE R

\* one record of Recover's backward pass
UndoStep(R, rec) ==
    IF rec.type = "EDIT" /\ rec.id \in R.active THEN Undo(R, rec)
    ELSE IF rec.type = "START" /\ rec.id \in R.active THEN CommitUndone(R, rec.id)
    ELSE R

RECURSIVE Backward(_, _, _)
Backward(R, logs, undoPtr) ==
    IF undoPtr = 0 \/ R.err # "nil" THEN R
    ELSE Backward(UndoStep(R, logs[undoPtr]), logs, undoPtr - 1)

\* RecoveryManager.Recover on the log read at its start
RmRecover(R) ==
    Backward(Forward(R, R.log, LastCheckpoint(R.log, Len(R.log))), R.log, Len(R.log))

\* the edits of a stack applied to the committed contents
RECURSIVE ApplyEdits(_, _, _)
ApplyEdits(data, stack, i) ==
    IF i > Len(stack) THEN data
    ELSE ApplyEdits(IF stack[i].type = "EDIT"
                    THEN [data EXCEPT ![stack[i].key] =
                             IF stack[i].action = "DELETE" THEN NOTFOUND ELSE stack[i].newval]
                    ELSE data,
                    stack, i + 1)

Live == [db |-> db, log |-> log, txStack |-> txStack, tm |-> tm, active |-> {}, err |-> "nil"]

\* Prime and NewRecoveryManager: the snapshot replaces the database, the
\* memory of the crashed process is gone
Primed == [db |-> snapshot, log |-> log, txStack |-> <<>>, tm |-> <<>>, active |-> {},
           err |-> "nil"]

SetLive(R) ==
    /\ db' = R.db
    /\ log' = R.log
    /\ txStack' = R.txStack
    /\ tm' = R.tm

\* callers of the RecoveryManager that run at the same time
WalThreads == {1, 2}

\* rm.mtx is free, the TABLE record of the log is synced, no call is running
WalIdle ==
    [mtx |-> 0, synced |-> 1, rb |-> {},
     thr |-> [t \in WalThreads |-> [pc |-> "idle", rec |-> tableLog]]]

\* the thread is inside a Rollback; wal.rb holds <<thread, clientId>>
InRb(t) == \E e \in wal.rb : e[1] = t

RecoveryInit ==
    /\ log = <<tableLog>>
    /\ txStack = <<>>
    /\ db = [exists |-> TRUE, data |-> NoData]
    /\ snapshot = [exists |-> FALSE, data |-> NoData]
    /\ tm = <<>>
    /\ durable = NoData
    /\ recPc = "running"
    /\ recErr = "nil"
    /\ rbRet = [id |-> 0, err |-> "nil", seq |-> 0]
    /\ wal = WalIdle

\* Redo on its own: any table, and the records applied to it so far in log
RedoTables ==
    {[exists |-> e, data |-> d] : e \in BOOLEAN, d \in [RecKeys -> {NOTFOUND, INSERTVAL, UPDATEVAL}]}

RedoRecords ==
    {editLog(1, a, k, 0, v) : a \in {"INSERT", "UPDATE"}, k \in RecKeys, v \in {INSERTVAL, UPDATEVAL}}
      \cup {editLog(1, "DELETE", k, 0, 0) : k \in RecKeys}

RedoInit(d) ==
    /\ log = <<>>
    /\ txStack = <<>>
    /\ db = d
    /\ snapshot = [exists |-> FALSE, data |-> NoData]
    /\ tm = <<>>
    /\ durable = NoData
    /\ recPc = "redo"
    /\ recErr = "nil"
    /\ rbRet = [id |-> 0, err |-> "nil", seq |-> 0]
    /\ wal = WalIdle

\* rm.Redo(rec) on the table
RedoCall ==
    \E rec \in RedoRecords :
       /\ recPc = "redo"
       /\ Len(log) < MaxRedo
       /\ log' = Append(log, rec)
       /\ db' = Redo(db, rec)
       /\ recErr' = RedoErr(db, rec)
       /\ UNCHANGED <<txStack, snapshot, tm, durable, recPc, rbRet, wal, notRecovery>>

CanWrite == recPc = "running" /\ Len(log) < MaxLog

\* a client begins a transaction: tm.Begin, rm.Start
Start ==
    \E id \in Clients :
       /\ CanWrite
       /\ id \notin DOMAIN tm
       /\ SetLive([RmStart(Live, id) EXCEPT !.tm = TmBegin(@, id)])
       /\ UNCHANGED <<snapshot, durable, recPc, recErr, rbRet, wal, notRecovery>>

\* a client's insert, update or delete inside its transaction
Edit ==
    \E id \in Clients, key \in RecKeys,
       av \in {<<"INSERT", INSERTVAL>>, <<"UPDATE", UPDATEVAL>>, <<"DELETE", 0>>} :
       /\ CanWrite
       /\ HandleErr(Live, id, av[1], key) = "nil"
       /\ SetLive(Handle(Live, id, av[1], key, av[2]))
       /\ UNCHANGED <<snapshot, durable, recPc, recErr, rbRet, wal, notRecovery>>

\* a client commits: rm.Commit, tm.Commit
Commit ==
    \E id \in Clients :
       /\ CanWrite
       /\ id \in DOMAIN tm
       /\ SetLive([RmCommit(Live, id) EXCEPT !.tm = TmCommit(@, id)])
       /\ durable' = ApplyEdits(durable, txStack[id], 1)
       /\ UNCHANGED <<snapshot, recPc, recErr, rbRet, wal, notRecovery>>

\* Checkpoint up to the CHECKPOINT record (every page is flushed first)
Checkpoint ==
    /\ CanWrite
    /\ SetLive(RmCheckpoint(Live))
    /\ recPc' = "checkpoint"
    /\ UNCHANGED <<snapshot, durable, recErr, rbRet, wal, notRecovery>>

\* Delta at the end of Checkpoint: the database folder is copied
Delta ==
    /\ recPc = "checkpoint"
    /\ snapshot' = db
    /\ recPc' = "running"
    /\ UNCHANGED <<log, txStack, db, tm, durable, recErr, rbRet, wal, notRecovery>>

\* ---- Table, Start, Edit, Commit and Checkpoint of callers that run at the
\* ---- same time, one step per statement ----

\* a Lock that never waits
MtxAlwaysFree(m) == TRUE

\* rm.mtx.Lock() returns only when no caller holds the mutex
MtxFree(m) == m = 0

\* the records the callers write; the ids of a CHECKPOINT record are filled
\* in when it is written
WalCalls ==
    {tableLog, checkpointLog({})}
      \cup {startLog(id) : id \in Clients}
      \cup {editLog(id, "INSERT", 5, 0, INSERTVAL) : id \in Clients}
      \cup {commitLog(id) : id \in Clients}

WalStep(t, pc, rec) ==
    wal' = [wal EXCEPT !.thr[t] = [pc |-> pc, rec |-> rec]]

\* rm.mtx.Lock() at the top of Table, Start, Edit, Commit and Checkpoint
WalLock ==
    \E t \in WalThreads, rec \in WalCalls :
       /\ recPc = "running"
       /\ wal.thr[t].pc = "idle"
       /\ ~InRb(t)
       /\ Len(log) + Cardinality({u \in WalThreads : wal.thr[u].pc = "locked"}) < MaxWal
       /\ MtxFree(wal.mtx)
       /\ wal' = [wal EXCEPT !.mtx = t, !.thr[t] = [pc |-> "locked", rec |-> rec]]
       /\ UNCHANGED <<log, txStack, db, snapshot, tm, durable, recPc, recErr, rbRet>>
       /\ UNCHANGED notRecovery

\* the record as it is written: Checkpoint lists the keys of rm.txStack
WalRecord(rec, stack) ==
    IF rec.type = "CHECKPOINT" THEN checkpointLog(DOMAIN stack) ELSE rec

\* rm.fd.WriteString(s) of writeToBuffer; Commit has deleted the stack of the
\* client before, Checkpoint has flushed the pagers
WalWrite ==
    \E t \in WalThreads :
       /\ wal.thr[t].pc = "locked"
       /\ log' = Append(log, WalRecord(wal.thr[t].rec, txStack))
       /\ txStack' = IF wal.thr[t].rec.type = "COMMIT"
                     THEN MapDelete(txStack, wal.thr[t].rec.id)
                     ELSE txStack
       /\ WalStep(t, "written", WalRecord(wal.thr[t].rec, txStack))
       /\ UNCHANGED <<db, snapshot, tm, durable, recPc, recErr, rbRet, notRecovery>>

\* rm.fd.Sync() of writeToBuffer: everything written so far is on disk
WalSync ==
    \E t \in WalThreads :
       /\ wal.thr[t].pc = "written"
       /\ wal' = [wal EXCEPT !.synced = Len(log), !.thr[t].pc = "synced"]
       /\ UNCHANGED <<log, txStack, db, snapshot, tm, durable, recPc, recErr, rbRet>>
       /\ UNCHANGED notRecovery

\* after writeToBuffer: Start, Edit and Commit append the record to the
\* stack of the client, Checkpoint calls Delta, Table does nothing more
WalAfter ==
    \E t \in WalThreads :
       /\ wal.thr[t].pc = "synced"
       /\ txStack' = IF wal.thr[t].rec.type \in {"START", "EDIT", "COMMIT"}
                     THEN StackAppend(txStack, wal.thr[t].rec.id, wal.thr[t].rec)
                     ELSE txStack
       /\ snapshot' = IF wal.thr[t].rec.type = "CHECKPOINT" THEN db ELSE snapshot
       /\ WalStep(t, "done", wal.thr[t].rec)
       /\ UNCHANGED <<log, db, tm, durable, recPc, recErr, rbRet, notRecovery>>

\* the deferred rm.mtx.Unlock()
WalUnlock ==
    \E t \in WalThreads :
       /\ wal.thr[t].pc = "done"
       /\ wal' = [wal EXCEPT !.mtx = IF @ = t THEN 0 ELSE @,
                             !.thr[t] = [pc |-> "idle", rec |-> tableLog]]
       /\ UNCHANGED <<log, txStack, db, snapshot, tm, durable, recPc, recErr, rbRet>>
       /\ UNCHANGED notRecovery

\* Checkpoint step by step.  rm.mtx is held from the first step to Delta: no
\* client writes while recPc is not "running".
CheckpointsWritten == Cardinality({i \in DOMAIN log : log[i].type = "CHECKPOINT"})

\* p.LockAllUpdates() of the table's pager
CkLockAll ==
    /\ CanWrite
    /\ CheckpointsWritten < MaxCheckpoints
    /\ ~ptLocks.ptMtx
    /\ ptLocks' = LockAllUpdates(ThePager, ptLocks)
    /\ recPc' = "ckLocked"
    /\ UNCHANGED <<hasFile, maxPageNum, pages, heap, pageTable, pagerRet, disk, listVars>>
    /\ UNCHANGED <<log, txStack, db, snapshot, tm, durable, recErr, rbRet, wal>>
    /\ UNCHANGED <<hashVars, joinVars, bloomVars>>

\* p.FlushAllPages()
CkFlush ==
    /\ recPc = "ckLocked"
    /\ SetPager(FlushAllPages(ThePager))
    /\ recPc' = "ckFlushed"
    /\ UNCHANGED <<pagerRet, ptLocks, listVars>>
    /\ UNCHANGED <<log, txStack, db, snapshot, tm, durable, recErr, rbRet, wal>>
    /\ UNCHANGED <<hashVars, joinVars, bloomVars>>

\* p.UnlockAllUpdates()
CkUnlock ==
    /\ recPc = "ckFlushed"
    /\ ptLocks' = UnlockAllUpdates(ThePager, ptLocks)
    /\ recPc' = "ckUnlocked"
    /\ UNCHANGED <<hasFile, maxPageNum, pages, heap, pageTable, pagerRet, disk, listVars>>
    /\ UNCHANGED <<log, txStack, db, snapshot, tm, durable, recErr, rbRet, wal>>
    /\ UNCHANGED <<hashVars, joinVars, bloomVars>>

\* the CHECKPOINT record is written
CkRecord ==
    /\ recPc = "ckUnlocked"
    /\ SetLive(RmCheckpoint(Live))
    /\ recPc' = "checkpoint"
    /\ UNCHANGED <<snapshot, durable, recErr, rbRet, wal, notRecovery>>

Crash ==
    /\ recPc \in {"running", "checkpoint"}
    /\ recPc' = "crashed"
    /\ txStack' = <<>>
    /\ tm' = <<>>
    /\ UNCHANGED <<log, db, snapshot, durable, recErr, rbRet, wal, notRecovery>>

RecoverDone(R) ==
    /\ SetLive(R)
    /\ recErr' = R.err
    /\ recPc' = "recovered"
    /\ UNCHANGED <<snapshot, durable, rbRet, wal, notRecovery>>

\* Prime, NewRecoveryManager and Recover after a crash
Recover ==
    /\ recPc = "crashed"
    /\ RecoverDone(RmRecover(Primed))

\* a second Recover right after a successful one, on the log the first one
\* extended: called again in the same process, or after another restart
RecoverAgain ==
    \E R \in {Live, Primed} :
       /\ recPc = "recovered"
       /\ recErr = "nil"
       /\ SetLive(RmRecover(R))
       /\ recErr' = RmRecover(R).err
       /\ recPc' = "recovered twice"
       /\ UNCHANGED <<snapshot, durable, rbRet, wal, notRecovery>>

\* the loop of Rollback: the edits of the stack are undone last to first
RECURSIVE RollbackFrom(_, _, _)
RollbackFrom(R, stack, ptr) ==
    IF ptr = 0 \/ R.err # "nil" THEN R
    ELSE RollbackFrom(IF stack[ptr].type = "EDIT" THEN Undo(R, stack[ptr]) ELSE R,
                      stack, ptr - 1)

\* the end of Rollback: rm.Commit(clientId), then tm.Commit(clientId)
RollbackCommit(R, id) ==
    IF R.err # "nil" THEN R
    ELSE IF id \notin DOMAIN R.tm THEN [RmCommit(R, id) EXCEPT !.err = "no transaction"]
    ELSE [RmCommit(R, id) EXCEPT !.tm = TmCommit(@, id)]

\* a Rollback that does not look at the first record of the stack
RmRollbackUnchecked(R, id) ==
    IF id \notin DOMAIN R.txStack THEN R
    ELSE RollbackCommit(RollbackFrom(R, R.txStack[id], Len(R.txStack[id])), id)

\* RecoveryManager.Rollback
RmRollback(R, id) ==
    IF id \notin DOMAIN R.txStack THEN R
    ELSE IF Len(R.txStack[id]) > 0 /\ R.txStack[id][1].type # "START"
    THEN [R EXCEPT !.err = "incorrect format"]
    ELSE RollbackCommit(RollbackFrom(R, R.txStack[id], Len(R.txStack[id])), id)

RollbackDone(R, id) ==
    /\ SetLive(R)
    /\ rbRet' = [id |-> id, err |-> R.err, seq |-> 1 - rbRet.seq]
    /\ UNCHANGED <<snapshot, durable, recPc, recErr, wal, notRecovery>>

\* a client aborts its transaction
Rollback ==
    \E id \in Clients :
       /\ CanWrite
       /\ id \in DOMAIN tm
       /\ RollbackDone(RmRollback(Live, id), id)

----------------------------------------------------------------------------
(* Specifications *)

InitPager ==
    /\ BloomIdle
    /\ RecoveryInit
    /\ \E P \in {NewPager, Open(NewPager)} : PagerInit(P)
    /\ HashInit
    /\ JoinIdle

NextPager == GetPage \/ Put

SpecPager == InitPager /\ [][NextPager]_vars

InitHash ==
    /\ BloomIdle
    /\ RecoveryInit
    /\ PagerInit(NewPager)
    /\ HashInit
    /\ JoinIdle

NextHash ==
    \/ FindCall \/ FindLockBucket \/ FindScan
    \/ InsertCall \/ InsertLockBucket \/ InsertDo
    \/ UpdateCall \/ UpdateLockBucket \/ UpdateDo
    \/ DeleteCall \/ DeleteLockBucket \/ DeleteDo

SpecHash == InitHash /\ [][NextHash]_vars

NextLocks ==
    \/ NextHash
    \/ InsertLookupFails \/ InsertSplitFails
    \/ SelectCall \/ SelectLockBucket \/ SelectRead

SpecLocks == InitHash /\ [][NextLocks]_vars

NextTable == InsertAlone \/ UpdateAlone \/ DeleteAlone

SpecTable == InitHash /\ [][NextTable]_vars

InitJoin ==
    /\ BloomIdle
    /\ RecoveryInit
    /\ PagerInit(NewPager)
    /\ HashInit
    /\ \E in \in JoinInputs : JoinInit(in)

NextJoin == Join \/ ProbeStart \/ ProbeSend \/ ProbeCancelled \/ ProbeReturn \/ Receive

SpecJoin == InitJoin /\ [][NextJoin]_vars

\* inputs whose left index splits a bucket, so that some probe tasks meet
\* buckets of different depths and return errors, while other tasks have
\* more pairs to send than the channel holds
CancelInputs ==
    {[leftTable |-> TableOf({0, 8, 16, 4} \cup lf, LeftPayload, TRUE),
      rightTable |-> TableOf(rf, RightPayload, TRUE),
      joinOnLeftKey |-> TRUE, joinOnRightKey |-> TRUE] :
        lf \in SUBSET {1, 5, 2}, rf \in {{1, 5, 2}, {4, 1, 5, 2}, {1, 5}, {4, 1}}}

InitJoinFair ==
    /\ BloomIdle
    /\ RecoveryInit
    /\ PagerInit(NewPager)
    /\ HashInit
    /\ \E in \in CancelInputs : JoinInit(in)

\* every goroutine the errgroup has started runs on: a task whose select has
\* a ready case takes one; the consumer may stop receiving at any time
SpecJoinFair ==
    /\ InitJoinFair
    /\ [][NextJoin]_vars
    /\ WF_vars(ProbeStart)
    /\ WF_vars(ProbeSend \/ ProbeCancelled)
    /\ WF_vars(ProbeReturn)

InitBloom ==
    /\ PagerInit(NewPager)
    /\ HashInit
    /\ JoinIdle
    /\ RecoveryInit
    /\ \E size \in BloomSizes : BloomInit(size)

NextBloom == FilterInsert

SpecBloom == InitBloom /\ [][NextBloom]_vars

InitRedo ==
    /\ BloomIdle
    /\ PagerInit(NewPager)
    /\ HashInit
    /\ JoinIdle
    /\ \E d \in RedoTables : RedoInit(d)

NextRedo == RedoCall

SpecRedo == InitRedo /\ [][NextRedo]_vars

\* a file-backed pager whose pages are updated, and Checkpoint step by step
InitCheckpoint ==
    /\ PagerInit(Open(NewPager))
    /\ HashInit
    /\ JoinIdle
    /\ BloomIdle
    /\ RecoveryInit

\* GetPage while few Links are allocated
GetPageFew == GetPage /\ Len(heap'.links) <= MaxCkLinks

PutFew == Put /\ Len(heap'.links) <= MaxCkLinks

NextCheckpoint ==
    \/ GetPageFew \/ PutFew \/ Update
    \/ CkLockAll \/ CkFlush \/ CkUnlock \/ CkRecord \/ Delta

SpecCheckpoint == InitCheckpoint /\ [][NextCheckpoint]_vars

\* a file-backed pager whose pages are updated and evicted
InitDisk ==
    /\ PagerInit(Open(NewPager))
    /\ HashInit
    /\ JoinIdle
    /\ BloomIdle
    /\ RecoveryInit

GetPageDisk == GetPage /\ Len(heap'.links) <= MaxDiskLinks

PutDisk == Put /\ Len(heap'.links) <= MaxDiskLinks

NextDisk == GetPageDisk \/ PutDisk \/ Update

SpecDisk == InitDisk /\ [][NextDisk]_vars

NextSplit == InsertColliding

SpecSplit == InitHash /\ [][NextSplit]_vars

InitList ==
    /\ PagerInit(NewPager)
    /\ HashInit
    /\ JoinIdle
    /\ BloomIdle
    /\ RecoveryInit

NextList == ListPushHead \/ ListPushTail \/ ListPopSelf

SpecList == InitList /\ [][NextList]_vars

InitRecovery ==
    /\ BloomIdle
    /\ PagerInit(NewPager)
    /\ HashInit
    /\ JoinIdle
    /\ RecoveryInit

NextRecovery ==
    \/ Start \/ Edit \/ Commit \/ Rollback \/ Checkpoint \/ Delta \/ Crash
    \/ Recover \/ RecoverAgain

SpecRecovery == InitRecovery /\ [][NextRecovery]_vars

NextWal == WalLock \/ WalWrite \/ WalSync \/ WalAfter \/ WalUnlock

SpecWal == InitRecovery /\ [][NextWal]_vars

----------------------------------------------------------------------------
(* Properties of the Pager *)

\* the frames whose pin count is not zero, counted once per reference
RECURSIVE SumPinCounts(_)
SumPinCounts(n) == IF n = 0 THEN 0 ELSE pages[n].pinCount + SumPinCounts(n - 1)

ListsOf(f) == {l \in ListNames : f \in Range(ListFrames(heap, l))}

ListLen(l) == Len(ListLinks(heap, l))

\* C2: every frame is in exactly one of the free, unpinned and pinned lists,
\* and the three lengths add up to NUMPAGES.
C2_FrameConservation ==
    /\ \A f \in Frames : Cardinality(ListsOf(f)) = 1
    /\ ListLen("freeList") + ListLen("unpinnedList") + ListLen("pinnedList") = NUMPAGES

\* C3: a frame bound to a page number is the value of the page table's entry
\* for that number, the entry's link is in the list it names, which is the
\* pinned or the unpinned list, and no page number is bound to two frames.
C3_PageTableConsistency ==
    /\ \A f \in Frames :
          pages[f].pagenum # NOPAGE =>
             /\ pages[f].pagenum \in DOMAIN pageTable
             /\ GetKey(heap, pageTable[pages[f].pagenum]) = f
             /\ GetList(heap, pageTable[pages[f].pagenum]) \in {"pinnedList", "unpinnedList"}
             /\ pageTable[pages[f].pagenum]
                   \in Range(ListLinks(heap, GetList(heap, pageTable[pages[f].pagenum])))
    /\ \A f, g \in Frames :
          (f # g /\ pages[f].pagenum # NOPAGE) => pages[f].pagenum # pages[g].pagenum

\* C4: a page of the pinned list has pin count >= 1, a page of the unpinned
\* list has pin count 0.
C4_PinCountMatchesList ==
    /\ \A f \in Range(ListFrames(heap, "pinnedList")) : pages[f].pinCount >= 1
    /\ \A f \in Range(ListFrames(heap, "unpinnedList")) : pages[f].pinCount = 0

\* C4 witness: GetPage has just pinned again a page that was in the unpinned
\* list, while another frame holds a page after an eviction (no frame is free
\* and more page numbers were bound than there are frames).
C4_Witness ==
    /\ pagerRet.op = "GetPage" /\ pagerRet.err = "" /\ pagerRet.from = "unpinnedList"
    /\ pagerRet.evicted = NOPAGE
    /\ pages[pagerRet.page].pinCount = 1
    /\ ListLen("freeList") = 0
    /\ maxPageNum > NUMPAGES

\* C5 as stated: the pin counts add up to the length of the pinned list.
C5_SumPinEqualsPinned == SumPinCounts(NUMPAGES) = ListLen("pinnedList")

\* C5 amended: the pin counts add up to at least the length of the pinned
\* list (a page pinned twice is once in the list and counts twice).
C5_SumPinAtLeastPinned == SumPinCounts(NUMPAGES) >= ListLen("pinnedList")

\* C5 witness: a page is pinned twice, so the sum exceeds the list's length.
C5_Witness ==
    /\ \E f \in Range(ListFrames(heap, "pinnedList")) : pages[f].pinCount = 2
    /\ SumPinCounts(NUMPAGES) > ListLen("pinnedList")

\* The frames the page table has in the unpinned list, and the one among
\* them whose Link was pushed first (Links are numbered in allocation order).
UnpinnedNow ==
    {f \in Frames : /\ pages[f].pagenum \in DOMAIN pageTable
                    /\ GetKey(heap, pageTable[pages[f].pagenum]) = f
                    /\ GetList(heap, pageTable[pages[f].pagenum]) = "unpinnedList"}

OldestUnpinned ==
    CHOOSE f \in UnpinnedNow :
       \A g \in UnpinnedNow : pageTable[pages[f].pagenum] <= pageTable[pages[g].pagenum]

\* C6: a GetPage of a page number that is not resident, on a file-backed
\* pager whose free list is empty, takes the frame that entered the unpinned
\* list first, whose pin count is 0, and drops the victim's page number from
\* the page table; with no unpinned frame it fails.
C6_Step ==
    (/\ pagerRet'.op = "GetPage" /\ pagerRet'.pagenum >= 0
     /\ hasFile /\ PeekHead(heap, "freeList") = NIL
     /\ pagerRet'.pagenum \notin DOMAIN pageTable)
    => IF UnpinnedNow = {}
       THEN pagerRet'.err # ""
       ELSE /\ pagerRet'.err = ""
            /\ pagerRet'.page = OldestUnpinned
            /\ pages[pagerRet'.page].pinCount = 0
            /\ pagerRet'.evicted = pages[pagerRet'.page].pagenum
            /\ pagerRet'.evicted \notin DOMAIN pageTable'
            /\ pages'[pagerRet'.page].pagenum = pagerRet'.pagenum

C6_FIFOEviction == [][C6_Step]_vars

\* C6 witness, the scenario: pages 0, 1, 2 were fetched and put back, then
\* GetPage(3) succeeded and evicted page 0; pages 1 and 2 are still unpinned.
C6_Witness ==
    /\ hasFile
    /\ pagerRet.op = "GetPage" /\ pagerRet.pagenum = 3 /\ pagerRet.err = ""
    /\ pagerRet.evicted = 0
    /\ 0 \notin DOMAIN pageTable
    /\ Len(ListFrames(heap, "unpinnedList")) = 2
    /\ pages[ListFrames(heap, "unpinnedList")[1]].pagenum = 1
    /\ pages[ListFrames(heap, "unpinnedList")[2]].pagenum = 2

----------------------------------------------------------------------------
(* Properties of the hash table *)

Slots == 0..(Len(table.buckets) - 1)

BucketAt(i) == table.bpages[table.buckets[i + 1] + 1]

KeysIn(bucket) == {bucket.entries[j].key : j \in 1..Len(bucket.entries)}

C8_Step ==
    \A t \in Threads :
       (thr[t].op = "Find" /\ thr[t].pc = "locked" /\ thr'[t].pc = "idle")
          => thr'[t].ret = shadow[thr[t].key]

\* C8: after a successful Insert(k, v), Find(k) returns v until an Update or
\* Delete of k, however many later Inserts split the bucket or double the
\* directory and however the calls of other threads interleave.
C8_FindReturnsInserted == [][C8_Step]_vars

\* a Find returned the inserted value of a key whose bucket was split twice
\* while another thread was inside a call
C8_Witness ==
    \E t \in Threads, u \in Threads :
       /\ thr[t].op = "Find" /\ thr[t].pc = "idle" /\ thr[t].ret = INSERTED
       /\ table.depth = 4
       /\ u # t /\ thr[u].pc = "locked"

InsertedKeys == UNION {KeysIn(table.bpages[pn]) : pn \in 1..Len(table.bpages)}

\* n keys, all of slot 0 at depth 2, were inserted into a fresh index
FreshInserts(n) ==
    /\ ~everDeleted
    /\ InsertedKeys \subseteq Keys
    /\ Cardinality(InsertedKeys) = n

NewBucketInDirectory == \E i \in Slots : table.buckets[i + 1] >= powInt(2, 2)

AgreeAtDepth3 == \A j \in InsertedKeys, k \in InsertedKeys : Hasher(j, 3) = Hasher(k, 3)

----------------------------------------------------------------------------
(* Properties of the join *)

JoinField(e, onKey) == IF onKey THEN e.key ELSE e.value

\* the pairs of a left and a right entry with equal join-side fields
MatchingPairs ==
    {[l |-> joinIn.leftTable[a], r |-> joinIn.rightTable[b]] :
        <<a, b>> \in {ab \in (DOMAIN joinIn.leftTable) \X (DOMAIN joinIn.rightTable) :
                        JoinField(joinIn.leftTable[ab[1]], joinIn.joinOnLeftKey)
                          = JoinField(joinIn.rightTable[ab[2]], joinIn.joinOnRightKey)}}

\* every task has returned and the consumer has drained the channel
JoinOver ==
    /\ joinPc = "probing"
    /\ \A k \in DOMAIN tasks : tasks[k].pc = "done"
    /\ resultsChan = <<>>

\* C10: when the consumer has drained the channel and nobody cancelled,
\* every pair of a left and a right entry with equal join-side fields was
\* emitted and every probe task returned nil.
C10_JoinComplete ==
    JoinOver => /\ MatchingPairs \subseteq received
                /\ \A k \in DOMAIN tasks : tasks[k].err = "nil"

\* the buckets of the two indexes that hold the matching keys split equally
\* often: every paired bucket has the same local depth on both sides
EqualDepths ==
    \A k \in DOMAIN tasks :
       joinTables.l.bpages[tasks[k].l + 1].depth = joinTables.r.bpages[tasks[k].r + 1].depth

\* the pairs sent so far: those in the channel and those taken from it
Emitted == received \cup {resultsChan[i] : i \in DOMAIN resultsChan}

InLeft(e) == \E a \in DOMAIN joinIn.leftTable : joinIn.leftTable[a] = e

InRight(e) == \E b \in DOMAIN joinIn.rightTable : joinIn.rightTable[b] = e

\* C11: every emitted pair (l, r) is an entry of the left input and an entry
\* of the right input, each as (key, value) of its input table whatever the
\* two join flags are, and the join-side fields of l and r are equal.
C11_JoinSound ==
    \A pr \in Emitted :
       /\ InLeft(pr.l)
       /\ InRight(pr.r)
       /\ JoinField(pr.l, joinIn.joinOnLeftKey) = JoinField(pr.r, joinIn.joinOnRightKey)

\* a pair was emitted by a join on the left value and the right key
C11_Witness ==
    /\ ~joinIn.joinOnLeftKey /\ joinIn.joinOnRightKey
    /\ received # {}

\* no two tasks probe the same (leftPageNum, rightPageNum)
TasksDistinct ==
    \A j \in DOMAIN tasks, k \in DOMAIN tasks :
       (tasks[j].l = tasks[k].l /\ tasks[j].r = tasks[k].r) => j = k

\* a pair that enters the channel was not sent before
NoResend ==
    Len(resultsChan') > Len(resultsChan)
       => resultsChan'[Len(resultsChan')] \notin Emitted

\* C12: each (leftPageNum, rightPageNum) is probed by at most one task even
\* when several slots alias the pair, and with unique join-side values no
\* pair is emitted more than once.
C12_NoDuplicates == [](TasksDistinct) /\ [][NoResend]_vars

\* two slots of the aligned directories alias one bucket pair, and a pair of
\* entries from those buckets was received
C12_Witness ==
    /\ joinPc = "probing"
    /\ \E i \in DOMAIN joinTables.l.buckets, j \in DOMAIN joinTables.l.buckets :
          /\ i # j
          /\ joinTables.l.buckets[i] = joinTables.l.buckets[j]
          /\ joinTables.r.buckets[i] = joinTables.r.buckets[j]
          /\ \E pr \in received :
                \E e \in KeysIn(joinTables.l.bpages[joinTables.l.buckets[i] + 1]) :
                   e = JoinField(pr.l, joinIn.joinOnLeftKey)

----------------------------------------------------------------------------
(* Properties of the Bloom filter *)

\* C13: after any sequence of Insert calls, Contains(k) is true for every
\* key k that was inserted.
C13_NoFalseNegatives == \A k \in bfKeys : Contains(bloom, k)

\* several keys are in the filter and it answers true for one that is not
C13_Witness ==
    /\ Cardinality(bfKeys) >= 2
    /\ \E k \in BloomKeys \ bfKeys : Contains(bloom, k)

----------------------------------------------------------------------------
(* Properties of recovery *)

\* C1: after a crash at any point, Prime and Recover leave in the database
\* exactly the effects of the transactions whose COMMIT record was written
\* before the crash, whether the COMMIT lies before or after the most recent
\* CHECKPOINT record.
C1_CrashConsistency ==
    recPc = "recovered" => (db.exists /\ db.data = durable)


\* a step in which Commit(id) of a running client returns
CommitReturns(id) ==
    /\ recPc = "running"
    /\ recPc' = "running"
    /\ rbRet' = rbRet
    /\ log' = Append(log, commitLog(id))

\* C18: after Commit(id) returns, the in-memory transaction stack holds no
\* record for id
C18_CommitDiscardsStack ==
    [][\A id \in Clients : CommitReturns(id) => id \notin DOMAIN txStack']_vars

\* the transactions with a START before position i of the log and no COMMIT
\* between that START and i
ActiveAt(logs, i) ==
    {id \in Clients :
        \E j \in 1..(i - 1) :
           /\ logs[j] = startLog(id)
           /\ \A k \in (j + 1)..(i - 1) : logs[k] # commitLog(id)}

\* C19: the id set of every CHECKPOINT record is exactly the set of the
\* transactions that have written START and not yet COMMIT at that moment
C19_CheckpointIds ==
    \A i \in 1..Len(log) :
       log[i].type = "CHECKPOINT" => log[i].ids = ActiveAt(log, i)


\* the stack of id does not begin with a START record
Malformed(id) ==
    /\ id \in DOMAIN txStack
    /\ Len(txStack[id]) > 0
    /\ txStack[id][1].type # "START"

\* C17: a Rollback on a stack whose first record is not a START returns an
\* error, undoes nothing, appends no COMMIT and leaves the stack unchanged
C17_RollbackMalformed ==
    [][(rbRet' # rbRet /\ Malformed(rbRet'.id))
         => /\ rbRet'.err # "nil"
            /\ db' = db
            /\ log' = log
            /\ txStack' = txStack
            /\ tm' = tm]_vars

\* a Rollback has refused a stack that holds edits after a leading COMMIT
C17_Witness ==
    /\ rbRet.err = "incorrect format"
    /\ Malformed(rbRet.id)
    /\ \E i \in 1..Len(txStack[rbRet.id]) : txStack[rbRet.id][i].type = "EDIT"


\* the position of the last START record of id, 0 if there is none
LastStart(logs, id) ==
    IF \E j \in 1..Len(logs) : logs[j] = startLog(id)
    THEN CHOOSE j \in 1..Len(logs) :
            /\ logs[j] = startLog(id)
            /\ \A k \in (j + 1)..Len(logs) : logs[k] # startLog(id)
    ELSE 0

\* the positions of the edits the current transaction of id has logged
EditsOf(logs, id) ==
    {j \in (LastStart(logs, id) + 1)..Len(logs) : logs[j].type = "EDIT" /\ logs[j].id = id}

TouchedBy(logs, id) == {logs[j].key : j \in EditsOf(logs, id)}

\* what key k held when id wrote its START: the old value of the first edit
\* of k logged after it (every edit logs the value it found)
ValueAtStart(logs, id, k) ==
    logs[CHOOSE j \in (LastStart(logs, id) + 1)..Len(logs) :
            /\ logs[j].type = "EDIT" /\ logs[j].key = k
            /\ \A h \in (LastStart(logs, id) + 1)..(j - 1) :
                  ~(logs[h].type = "EDIT" /\ logs[h].key = k)].oldval

\* C16: Rollback(id) of a running transaction returns nil, every key the
\* transaction touched has again the value (or absence) it had before START,
\* and a COMMIT record for id ends the log
C16_RollbackRoundTrip ==
    [][\A id \in Clients :
         (rbRet' # rbRet /\ rbRet'.id = id /\ id \in DOMAIN tm)
           => /\ rbRet'.err = "nil"
              /\ log'[Len(log')] = commitLog(id)
              /\ \A k \in TouchedBy(log, id) : db'.data[k] = ValueAtStart(log, id, k)]_vars


\* C14: a second Recover right after a successful Recover leaves the
\* database contents as the first one left them
C14_RecoverIdempotent ==
    [][(recPc = "recovered" /\ recPc' = "recovered twice") => db' = db]_vars


\* the log ends with the undo of an edit of id and the COMMIT that resolves id
EndsWithUndoOf(logs, id) ==
    /\ Len(logs) > 2
    /\ logs[Len(logs)] = commitLog(id)
    /\ logs[Len(logs) - 1].type = "EDIT"
    /\ logs[Len(logs) - 1].id = id
    /\ \E i \in 1..(Len(logs) - 2) :
          /\ logs[i].type = "EDIT" /\ logs[i].id = id
          /\ logs[i].key = logs[Len(logs) - 1].key
          /\ logs[i].oldval = logs[Len(logs) - 1].newval

\* Recover has run twice on a log in which the first run undid a transaction
\* that edited after a checkpoint
C14_Witness ==
    /\ recPc = "recovered twice"
    /\ recErr = "nil"
    /\ rbRet.id = 0
    /\ snapshot.exists
    /\ \E id \in Clients : EndsWithUndoOf(log, id)


\* some edit from position ptr on makes Redo return an error in the forward
\* pass of Recover
RECURSIVE RedoFails(_, _, _)
RedoFails(R, logs, ptr) ==
    IF ptr > Len(logs) THEN FALSE
    ELSE \/ logs[ptr].type = "EDIT" /\ RedoErr(R.db, logs[ptr]) # "nil"
         \/ RedoFails(RedoStep(R, logs[ptr]), logs, ptr + 1)

\* what a call of Recover can start from
RecoverFrom == IF recPc = "crashed" THEN {Primed} ELSE {Live, Primed}

\* a step that is Recover from R
RecoverStep(R) ==
    /\ recPc \in {"crashed", "recovered"}
    /\ recPc' \in {"recovered", "recovered twice"}
    /\ recPc' # recPc
    /\ db' = RmRecover(R).db
    /\ log' = RmRecover(R).log
    /\ tm' = RmRecover(R).tm

\* C20: when a redo handler or an undo handler returns an error during
\* Recover, Recover returns an error
C20_RecoverPropagates ==
    [][\A R \in RecoverFrom :
         (/\ RecoverStep(R)
          /\ \/ RedoFails(R, R.log, LastCheckpoint(R.log, Len(R.log)))
             \/ RmRecover(R).err # "nil")
           => recErr' # "nil"]_vars


\* the transactions with a START and no COMMIT after it
Losers(logs) ==
    {id \in Clients :
        /\ LastStart(logs, id) > 0
        /\ \A k \in (LastStart(logs, id) + 1)..Len(logs) : logs[k] # commitLog(id)}

\* what a record does, without the value it found
Shape(rec) == [type |-> rec.type, action |-> rec.action, key |-> rec.key, newval |-> rec.newval]

\* the inverse of an edit: INSERT by delete, DELETE by insert of oldval,
\* UPDATE by update to oldval
Inverse(rec) ==
    [type |-> "EDIT",
     action |-> IF rec.action = "INSERT" THEN "DELETE"
                ELSE IF rec.action = "DELETE" THEN "INSERT" ELSE "UPDATE",
     key |-> rec.key,
     newval |-> IF rec.action = "INSERT" THEN 0 ELSE rec.oldval]

\* the inverses of the edits of the open transaction of id, last edit first
RECURSIVE InversesFrom(_, _, _)
InversesFrom(logs, id, ptr) ==
    IF ptr <= LastStart(logs, id) THEN <<>>
    ELSE (IF logs[ptr].type = "EDIT" /\ logs[ptr].id = id
          THEN <<Inverse(logs[ptr])>> ELSE <<>>)
         \o InversesFrom(logs, id, ptr - 1)

\* what the records of id do from position ptr of the log on, in log order
RECURSIVE AppendedFor(_, _, _)
AppendedFor(after, id, ptr) ==
    IF ptr > Len(after) THEN <<>>
    ELSE (IF after[ptr].id = id /\ after[ptr].type \in {"EDIT", "COMMIT", "START"}
          THEN <<Shape(after[ptr])>> ELSE <<>>)
         \o AppendedFor(after, id, ptr + 1)

\* the log of the scenario: T1 START, INSERT(5,50), COMMIT; T2 START,
\* UPDATE(5,99)
ScenarioLog ==
    <<tableLog, startLog(1), editLog(1, "INSERT", 5, 0, 50), commitLog(1),
      startLog(2), editLog(2, "UPDATE", 5, 50, 99)>>

\* C15: after Recover returns nil, the edits of every transaction with a
\* START and no COMMIT in the pre-crash log have been inverted last to first
\* and one COMMIT for it has been appended; in the scenario Find(5) = 50
C15_LosersUndone ==
    [][(recPc = "crashed" /\ recPc' = "recovered" /\ recErr' = "nil")
         => /\ \A id \in Losers(log) :
                  AppendedFor(log', id, Len(log) + 1)
                    = Append(InversesFrom(log, id, Len(log)), Shape(commitLog(id)))
            /\ log = ScenarioLog => db'.data[5] = 50]_vars

\* Recover has undone T2's update in the scenario
C15_Witness ==
    /\ recPc = "recovered"
    /\ recErr = "nil"
    /\ Len(log) = Len(ScenarioLog) + 2
    /\ SubSeq(log, 1, Len(ScenarioLog)) = ScenarioLog
    /\ log[Len(log) - 1].action = "UPDATE"
    /\ db.data[5] = 50


\* the record of the Redo call of this step
RedoOf(rec) == recPc = "redo" /\ log' = Append(log, rec)

\* C21: Redo of an INSERT whose key is present and of an UPDATE whose key is
\* absent return nil and leave Find(key) = newval; Redo of the same INSERT
\* or UPDATE record a second time leaves the table as the first left it
C21_RedoFallback ==
    [][\A rec \in RedoRecords :
         (RedoOf(rec) /\ db.exists /\ rec.action \in {"INSERT", "UPDATE"})
           => /\ recErr' = "nil"
              /\ db'.data[rec.key] = rec.newval
              /\ (Len(log) > 0 /\ log[Len(log)] = rec) => db' = db]_vars

\* an INSERT has been redone twice on a table that held its key, and an
\* UPDATE of a key that was absent has been redone after it
C21_Witness ==
    /\ recPc = "redo"
    /\ recErr = "nil"
    /\ db.exists
    /\ Len(log) = 3
    /\ log[1] = log[2]
    /\ log[1].action = "INSERT" /\ log[1].key = 5
    /\ log[3].action = "UPDATE" /\ log[3].key = 6
    /\ db.data[5] = log[1].newval
    /\ db.data[6] = log[3].newval


\* the locks thread t holds
HoldsTable(t) == tableLock.w = t \/ t \in tableLock.r

HoldsBucket(t, pn) == bucketLock[pn].w = t \/ t \in bucketLock[pn].r

HoldsNoBucket(t) == \A pn \in DOMAIN bucketLock : ~HoldsBucket(t, pn)

\* t is in Insert and has locked its bucket
InsertLocked(t) == thr[t].op = "Insert" /\ thr[t].pc = "locked"

\* Insert's locks at each position: the table write-lock before the bucket's;
\* with the bucket locked, the table lock is still held exactly when the
\* bucket has BUCKETSIZE - 1 keys or more; nothing is held after the return
InsertCoupling ==
    \A t \in Threads :
       /\ (thr[t].op = "Insert" /\ thr[t].pc = "lockBucket")
             => (tableLock.w = t /\ HoldsNoBucket(t))
       /\ InsertLocked(t)
             => /\ bucketLock[thr[t].pn].w = t
                /\ (tableLock.w = t)
                     <=> (Len(table.bpages[thr[t].pn + 1].entries) >= BUCKETSIZE - 1)
       /\ thr[t].pc = "idle" => (~HoldsTable(t) /\ HoldsNoBucket(t))

\* the directory, the number of bucket pages or a local depth changes
DirectoryChanges ==
    \/ table'.depth # table.depth
    \/ table'.buckets # table.buckets
    \/ Len(table'.bpages) # Len(table.bpages)
    \/ \E i \in DOMAIN table.bpages : table'.bpages[i].depth # table.bpages[i].depth

\* a split runs in a step of the thread that holds the table write-lock, and
\* an Insert releases the table lock at its return only if it still holds it
SplitUnderTableLock ==
    /\ DirectoryChanges
          => \E t \in Threads : InsertLocked(t) /\ tableLock.w = t /\ tableLock'.w = 0
    /\ \A t \in Threads :
          (InsertLocked(t) /\ thr'[t].pc = "idle" /\ tableLock.w # t)
             => tableLock' = tableLock

Wanted(t) == IF thr[t].op = "Select" THEN thr[t].pn ELSE BucketPN(table, thr[t].hash)

\* t waits for a bucket lock somebody else holds
Blocked(t) ==
    /\ thr[t].pc = "lockBucket"
    /\ IF thr[t].op \in {"Find", "Select"}
       THEN ~CanRLock(bucketLock[Wanted(t)])
       ELSE ~CanLock(bucketLock[Wanted(t)])

AllTasksDone == joinPc = "probing" /\ \A k \in DOMAIN tasks : tasks[k].pc = "done"

SomeTaskFailed == \E k \in DOMAIN tasks : tasks[k].err \notin {"none", "nil"}

\* C24: a task returns the cancellation error only when the shared context
\* is done, and once a task has returned an error every task terminates,
\* also when the channel is full and nobody receives
C24_CancelTerminates ==
    /\ [](\A k \in DOMAIN tasks : tasks[k].err = "cancelled" => ctxDone)
    /\ (SomeTaskFailed ~> AllTasksDone)

\* a task was cancelled at a send while the channel was full
C24_Witness ==
    /\ AllTasksDone
    /\ Len(resultsChan) = ChanCap
    /\ received = {}
    /\ \E k \in DOMAIN tasks : tasks[k].err = "cancelled"
    /\ \E k \in DOMAIN tasks : tasks[k].err = "depth"

\* the step writes a CHECKPOINT record
CheckpointAppended ==
    /\ Len(log') = Len(log) + 1
    /\ log'[Len(log')].type = "CHECKPOINT"

\* the step is FlushAllPages of a Checkpoint: the pager is locked with every
\* resident page, and no resident page is dirty after it
FlushedUnderLocks ==
    /\ recPc = "ckLocked"
    /\ ptLocks.ptMtx /\ ptLocks' = ptLocks
    /\ ResidentFrames(ThePager) \subseteq ptLocks.upd
    /\ pageTable' = pageTable
    /\ \A pn \in DOMAIN pageTable' :
          /\ ~pages'[GetKey(heap', pageTable'[pn])].dirty
          /\ disk'[pn].onDisk = disk[pn].content

\* C25: within one Checkpoint the pager flushes every dirty resident page
\* under LockAllUpdates, every lock the checkpoint took is released before
\* the CHECKPOINT record is written, and Delta starts after the record
C25_CheckpointOrder ==
    [][/\ (recPc' = "ckFlushed" /\ recPc # "ckFlushed") => FlushedUnderLocks
       /\ (recPc' = "ckUnlocked" /\ recPc # "ckUnlocked") =>
             recPc = "ckFlushed" /\ ptLocks' = NoLocks
       /\ CheckpointAppended =>
             recPc = "ckUnlocked" /\ ptLocks = NoLocks /\ ptLocks' = NoLocks
       /\ snapshot' # snapshot \/ (recPc = "checkpoint" /\ recPc' = "running") =>
             /\ recPc = "checkpoint"
             /\ log[Len(log)].type = "CHECKPOINT"
             /\ log' = log]_vars

\* a second Checkpoint has written its record after flushing a page that a
\* holder had updated, and a page updated since is dirty
C25_Witness ==
    /\ recPc = "checkpoint"
    /\ CheckpointsWritten = MaxCheckpoints
    /\ ptLocks = NoLocks
    /\ \E pn \in DOMAIN pageTable : disk[pn].onDisk = 1
    /\ \E pn \in DOMAIN pageTable :
          pages[GetKey(heap, pageTable[pn])].dirty /\ disk[pn].content = 1 /\ disk[pn].onDisk = 0

\* C27: every page number that is not resident has on disk the content its
\* holders wrote last: eviction flushes the victim before it rebinds the frame
C27_NoLostUpdate ==
    \A pn \in PageNos \ DOMAIN pageTable : disk[pn].onDisk = disk[pn].content

\* a page that a holder updated was evicted dirty, and its frame holds another page
C27_Witness ==
    /\ pagerRet.op = "GetPage" /\ pagerRet.err = ""
    /\ pagerRet.evicted # NOPAGE
    /\ pagerRet.evicted \notin DOMAIN pageTable
    /\ disk[pagerRet.evicted].content = MaxVer
    /\ disk[pagerRet.evicted].onDisk = MaxVer
    /\ pages[pagerRet.page].pagenum = pagerRet.pagenum

\* C30: a GetPage that returns an error leaves the three lists, the page
\* table, every frame's page number and pin count, and maxPageNum as they were
C30_FailingGetPageChangesNothing ==
    [][(pagerRet'.op = "GetPage" /\ pagerRet'.err # "") =>
          /\ \A l \in ListNames : ListFrames(heap', l) = ListFrames(heap, l)
          /\ pageTable' = pageTable
          /\ \A f \in Frames :
                /\ pages'[f].pagenum = pages[f].pagenum
                /\ pages'[f].pinCount = pages[f].pinCount
          /\ maxPageNum' = maxPageNum]_vars

\* C28: every Insert ends after finitely many splits, without an error of the
\* pager (hash-overflow is the only failure of a split) and with the global
\* depth at most 64; no bucket is left holding BUCKETSIZE keys
C28_InsertTerminates ==
    /\ table.depth <= 64
    /\ thr[1].ret # ERR
    /\ NoBucketFull(table)

\* C29: after any pushes and pops the List is the sequence of the remaining
\* elements: next from the head visits them in order, PeekHead and PeekTail
\* are the first and the last, and both are nil when none remains
C29_ListRefinesSequence ==
    /\ ~lheap.panic
    /\ ListLinks(lheap, TheList) = elems
    /\ PeekHead(lheap, TheList) = (IF elems = <<>> THEN NIL ELSE elems[1])
    /\ PeekTail(lheap, TheList) = (IF elems = <<>> THEN NIL ELSE elems[Len(elems)])

\* the caller is between its rm.mtx.Lock() and its rm.mtx.Unlock()
InCall(t) == wal.thr[t].pc # "idle"

\* s is a subsequence of the records from position i of the log
RECURSIVE InOrderFrom(_, _, _)
InOrderFrom(s, lg, i) ==
    IF s = <<>> THEN TRUE
    ELSE IF i > Len(lg) THEN FALSE
    ELSE IF lg[i] = Head(s) THEN InOrderFrom(Tail(s), lg, i + 1)
    ELSE InOrderFrom(s, lg, i + 1)

\* C26: the callers' appends are mutually exclusive, every record is written
\* and synced under rm.mtx before the next one is written, and every stack
\* holds its records in the order of the log
C26_WalAppendOrder ==
    /\ \A t, u \in WalThreads : (InCall(t) /\ InCall(u)) => t = u
    /\ \A t \in WalThreads : InCall(t) => wal.mtx = t
    /\ wal.synced >= Len(log) - 1
    /\ wal.mtx = 0 => wal.synced = Len(log)
    /\ \A id \in DOMAIN txStack : InOrderFrom(txStack[id], log, 1)

\* a caller waits for rm.mtx while another has written and not yet synced a
\* record of a client whose stack holds two records
C26_Witness ==
    \E t, u \in WalThreads :
       /\ wal.thr[t].pc = "written" /\ wal.mtx = t
       /\ wal.thr[u].pc = "idle"
       /\ wal.synced = Len(log) - 1
       /\ wal.thr[t].rec.type = "EDIT"
       /\ wal.thr[t].rec.id \in DOMAIN txStack
       /\ Len(txStack[wal.thr[t].rec.id]) = 2

\* C31: maxPageNum is greater than every page number that is resident or
\* bound to a frame, so GetFreePN never names an existing page
C31_MaxPageNumBounds ==
    /\ \A pn \in DOMAIN pageTable : pn < maxPageNum
    /\ \A f \in Frames : pages[f].pagenum < maxPageNum

----------------------------------------------------------------------------
(* Rollback beside the calls of the other threads *)

\* the statements of the recovery manager that read or write rm.txStack: the
\* read of Rollback, the delete of Commit, the range of Checkpoint, the
\* append of Start, Edit and Commit
StackAccess(t) ==
    \/ wal.thr[t].pc = "reading"
    \/ wal.thr[t].pc = "locked" /\ wal.thr[t].rec.type \in {"COMMIT", "CHECKPOINT"}
    \/ wal.thr[t].pc = "synced" /\ wal.thr[t].rec.type \in {"START", "EDIT", "COMMIT"}

\* the map once the thread that holds rm.mtx has done its write
StackAfter(u) ==
    IF wal.thr[u].pc = "locked" /\ wal.thr[u].rec.type = "COMMIT"
    THEN MapDelete(txStack, wal.thr[u].rec.id)
    ELSE IF wal.thr[u].pc = "synced" /\ wal.thr[u].rec.type \in {"START", "EDIT", "COMMIT"}
    THEN StackAppend(txStack, wal.thr[u].rec.id, wal.thr[u].rec)
    ELSE txStack

\* what the read of rm.txStack[clientId] can see: the map as it is, and the
\* map after the write of a thread that is in its critical section
StacksSeen(t) ==
    {txStack} \cup {StackAfter(u) : u \in {v \in WalThreads : v # t /\ wal.mtx = v}}

\* Rollback reaches `var log, find = rm.txStack[clientId]`: rm.mtx is not taken
RbRead ==
    \E t \in WalThreads, id \in Clients :
       /\ recPc = "running"
       /\ wal.thr[t].pc = "idle"
       /\ ~InRb(t)
       /\ wal' = [wal EXCEPT !.thr[t] = [pc |-> "reading", rec |-> commitLog(id)],
                             !.rb = @ \cup {<<t, id>>}]
       /\ UNCHANGED <<log, txStack, db, snapshot, tm, durable, recPc, recErr, rbRet>>
       /\ UNCHANGED notRecovery

\* the return of Rollback
RbLeave(t, id, err) ==
    /\ wal' = [wal EXCEPT !.thr[t] = [pc |-> "idle", rec |-> tableLog], !.rb = @ \ {<<t, id>>}]
    /\ rbRet' = [id |-> id, err |-> err, seq |-> 1 - rbRet.seq]
    /\ UNCHANGED <<log, txStack, db, snapshot, tm, durable, recPc, recErr>>
    /\ UNCHANGED notRecovery

\* the runtime stops the process on a map read beside a map write
RbFatal ==
    /\ recPc' = "crashed"
    /\ wal' = [wal EXCEPT !.thr = [u \in WalThreads |-> [pc |-> "dead", rec |-> tableLog]]]
    /\ UNCHANGED <<log, txStack, db, snapshot, tm, durable, recErr, rbRet>>
    /\ UNCHANGED notRecovery

\* the read is done and Rollback goes on with what it saw: no stack, a stack
\* that does not start with START, an edit to undo, or nothing but the START
RbReadDone ==
    \E t \in WalThreads :
       /\ wal.thr[t].pc = "reading"
       /\ \/ /\ StacksSeen(t) # {txStack}
             /\ RbFatal
          \/ \E seen \in StacksSeen(t) :
                LET id == wal.thr[t].rec.id
                    R == RmRollback([Live EXCEPT !.txStack = seen], id)
                IN  IF id \notin DOMAIN seen THEN RbLeave(t, id, "nil")
                    ELSE IF \A i \in DOMAIN seen[id] : seen[id][i].type = "START"
                    THEN /\ wal' = [wal EXCEPT !.thr[t].pc = "rbCommit"]
                         /\ UNCHANGED <<log, txStack, db, snapshot, tm, durable,
                                        recPc, recErr, rbRet>>
                         /\ UNCHANGED notRecovery
                    ELSE RbLeave(t, id, R.err)

\* rm.Commit(clientId) of Rollback takes rm.mtx
RbCommitLock ==
    \E t \in WalThreads :
       /\ wal.thr[t].pc = "rbCommit"
       /\ MtxFree(wal.mtx)
       /\ wal' = [wal EXCEPT !.mtx = t, !.thr[t].pc = "locked"]
       /\ UNCHANGED <<log, txStack, db, snapshot, tm, durable, recPc, recErr, rbRet>>
       /\ UNCHANGED notRecovery

\* rm.Commit has returned: tm.Commit(clientId), and Rollback returns
RbReturn ==
    \E t \in WalThreads, id \in Clients :
       /\ wal.thr[t].pc = "idle"
       /\ <<t, id>> \in wal.rb
       /\ tm' = TmCommit(tm, id)
       /\ wal' = [wal EXCEPT !.rb = @ \ {<<t, id>>}]
       /\ rbRet' = [id |-> id,
                    err |-> IF id \in DOMAIN tm THEN "nil" ELSE "no transaction",
                    seq |-> 1 - rbRet.seq]
       /\ UNCHANGED <<log, txStack, db, snapshot, durable, recPc, recErr>>
       /\ UNCHANGED notRecovery

NextRace == NextWal \/ RbRead \/ RbReadDone \/ RbCommitLock \/ RbReturn

SpecRace == InitRecovery /\ [][NextRace]_vars

\* C32: every statement that reads or writes rm.txStack is run by the thread
\* that holds rm.mtx, so the read of Rollback never stands beside the write of
\* a Start, Edit or Commit of another thread
C32_StackUnderMutex ==
    \A t \in WalThreads : StackAccess(t) => wal.mtx = t

----------------------------------------------------------------------------
(* The snapshot step of Checkpoint, a crash inside it, and Prime *)

\* the recovery folder after os.RemoveAll
NoFolder == [exists |-> FALSE, data |-> NoData]

FirstKey == CHOOSE k \in RecKeys : \A j \in RecKeys : k <= j

\* copy.Copy walks the folder entry by entry: the entries up to the first key
\* are in the target, the others are not yet
PartCopy(d) ==
    [exists |-> TRUE, data |-> [k \in RecKeys |-> IF k = FirstKey THEN d.data[k] ELSE NOTFOUND]]

\* Delta: os.RemoveAll(recoveryFolder)
DeltaRemove ==
    /\ recPc = "checkpoint"
    /\ snapshot' = NoFolder
    /\ recPc' = "deltaRemoved"
    /\ UNCHANGED <<log, txStack, db, tm, durable, recErr, rbRet, wal, notRecovery>>

\* Delta: copy.Copy(folder, recoveryFolder) has made the folder and copied a
\* part of it
DeltaCopyPart ==
    /\ recPc = "deltaRemoved"
    /\ snapshot' = PartCopy(db)
    /\ recPc' = "deltaCopying"
    /\ UNCHANGED <<log, txStack, db, tm, durable, recErr, rbRet, wal, notRecovery>>

\* Delta: copy.Copy returns, Checkpoint returns
DeltaCopyEnd ==
    /\ recPc = "deltaCopying"
    /\ snapshot' = db
    /\ recPc' = "running"
    /\ UNCHANGED <<log, txStack, db, tm, durable, recErr, rbRet, wal, notRecovery>>

\* the process stops between two calls or inside Delta
CrashInDelta ==
    /\ recPc \in {"running", "checkpoint", "deltaRemoved", "deltaCopying"}
    /\ recPc' = "crashed"
    /\ txStack' = <<>>
    /\ tm' = <<>>
    /\ UNCHANGED <<log, db, snapshot, durable, recErr, rbRet, wal, notRecovery>>

\* the database Prime opens: a new one when there is no database folder, the
\* live folder as it is when there is no recovery folder, the copy of the
\* recovery folder otherwise
PrimeOpens(live, rec) ==
    IF ~live.exists THEN [exists |-> TRUE, data |-> NoData]
    ELSE IF ~rec.exists THEN live
    ELSE rec

\* the recovery folder after Prime: made by MkdirAll when there is no
\* database folder
PrimeKeeps(live, rec) ==
    IF ~live.exists /\ ~rec.exists THEN [exists |-> TRUE, data |-> NoData] ELSE rec

\* Prime at the next start
Prime ==
    /\ recPc = "crashed"
    /\ db' = PrimeOpens(db, snapshot)
    /\ snapshot' = PrimeKeeps(db, snapshot)
    /\ recPc' = "primed"
    /\ UNCHANGED <<log, txStack, tm, durable, recErr, rbRet, wal, notRecovery>>

NextSnapshot ==
    \/ Start \/ Edit \/ Commit \/ Checkpoint
    \/ DeltaRemove \/ DeltaCopyPart \/ DeltaCopyEnd \/ CrashInDelta \/ Prime

SpecSnapshot == InitRecovery /\ [][NextSnapshot]_vars

\* a Checkpoint has returned: its record is in the log and its Delta is over
FirstCheckpointDone ==
    \/ CheckpointsWritten >= 2
    \/ CheckpointsWritten = 1 /\ recPc = "running"

\* C33: once the first Checkpoint has completed, the recovery folder only
\* ever goes from one complete copy of the database folder to the next: no
\* step, a step inside Delta included, leaves it missing or partly copied
C33_SnapshotAtomic ==
    [][FirstCheckpointDone => (snapshot' = snapshot \/ (snapshot'.exists /\ snapshot' = db))]_vars

----------------------------------------------------------------------------
(* Checkpoint beside handlers that have logged an edit and not yet made it *)

\* the thread has logged its edit and is about to change the table
Mutating(t) == wal.thr[t].pc = "mutate"

\* HandleInsert / HandleUpdate / HandleDelete up to the return of rm.Edit: the
\* key is locked for the transaction and the EDIT record is in the log
HandleLogs ==
    \E t \in WalThreads, id \in Clients, key \in RecKeys,
       av \in {<<"INSERT", INSERTVAL>>, <<"UPDATE", UPDATEVAL>>, <<"DELETE", 0>>} :
       /\ CanWrite
       /\ wal.thr[t].pc = "idle"
       /\ ~InRb(t)
       /\ MtxFree(wal.mtx)
       /\ \A u \in WalThreads : Mutating(u) => wal.thr[u].rec.id # id
       /\ HandleErr(Live, id, av[1], key) = "nil"
       /\ SetLive([RmEdit(Live, editLog(id, av[1], key, db.data[key], av[2]))
                      EXCEPT !.tm[id] = @ \cup {key}])
       /\ wal' = [wal EXCEPT !.thr[t] =
                     [pc |-> "mutate", rec |-> editLog(id, av[1], key, db.data[key], av[2])]]
       /\ UNCHANGED <<snapshot, durable, recPc, recErr, rbRet, notRecovery>>

\* the rest of the handler: the table is changed
HandleMutates ==
    \E t \in WalThreads :
       /\ recPc = "running"
       /\ Mutating(t)
       /\ db' = DbApply(db, wal.thr[t].rec.action, wal.thr[t].rec.key, wal.thr[t].rec.newval)
       /\ wal' = [wal EXCEPT !.thr[t] = [pc |-> "idle", rec |-> tableLog]]
       /\ UNCHANGED <<log, txStack, snapshot, tm, durable, recPc, recErr, rbRet, notRecovery>>

\* a client commits once its handlers have returned
CommitAfterHandlers ==
    /\ Commit
    /\ \A u \in WalThreads : Mutating(u) => wal.thr[u].rec.id # log'[Len(log')].id

\* Checkpoint from rm.mtx.Lock() to its return: the pages in memory are
\* flushed, the CHECKPOINT record is written, Delta copies the folder
CheckpointWhole ==
    /\ CanWrite
    /\ MtxFree(wal.mtx)
    /\ SetLive(RmCheckpoint(Live))
    /\ snapshot' = db
    /\ UNCHANGED <<durable, recPc, recErr, rbRet, wal, notRecovery>>

NextCover ==
    \/ Start \/ HandleLogs \/ HandleMutates \/ CommitAfterHandlers
    \/ CheckpointWhole \/ Crash \/ Recover

SpecCover == InitRecovery /\ [][NextCover]_vars

\* C34: the snapshot of a checkpoint holds every edit whose EDIT record
\* stands before the most recent CHECKPOINT record of the log
C34_CheckpointCoversLog ==
    snapshot.exists =>
       snapshot.data =
          ApplyEdits(NoData, SubSeq(log, 1, LastCheckpoint(log, Len(log))), 1)

====
